---- MODULE Spec2Model ----
(***************************************************************************)
(* A model of the interview coach's agents:                                *)
(*   InterviewerAgent  question selection and session progression          *)
(*   AnalyzerAgent     answer analysis with fallback to a canned analysis  *)
(*   MasterAgent       message routing and the setTimeout re-queue         *)
(* Scores are kept in tenths (7.5 is 75), so that the thresholds and the   *)
(* one-decimal rounding of the code stay integer arithmetic.               *)
(***************************************************************************)
EXTENDS Integers, Sequences, FiniteSets, TLC

VARIABLES
    questionBank,     \* InterviewerAgent.questionBank
    sessionContext,   \* InterviewerAgent.sessionContext (a Map: its keys are the DOMAIN)
    last,             \* what the last InterviewerAgent handler was given and emitted
    questionsSent,    \* per session, the ids of the 'question' messages of a driven interview
    analysisHistory,  \* AnalyzerAgent.analysisHistory (a Map: its keys are the DOMAIN)
    lastAnalysis,     \* what the last AnalyzerAgent handler was given and emitted
    sessions,         \* MasterAgent.sessions (a Map: its keys are the DOMAIN)
    messageQueue,     \* MasterAgent.messageQueue
    timers,           \* the retry timeouts handleRoutingError has scheduled and not yet run
    submitted,        \* the messages that arrived as 'agent-message' events
    routeRetries,     \* per message, the routeMessage calls made by a retry timeout
    routeFailures,    \* per message, the routeMessage calls that ended in 'routing-error'
    lastRoute,        \* what the last MasterAgent operation was given and emitted
    frontend,         \* FrontendAgent: activeConnections, sessionStates, messageBuffer
    lastFrontend,     \* what the last FrontendAgent handler was given, sent and emitted
    service,          \* InterviewService: sessionId, messageHistory, currentQuestionIndex
    lastService,      \* what the last InterviewService step was and the events it emitted
    lastEdge,         \* the last analyze-answer edge function request and its response
    client,           \* InterviewWebSocketClient: ws, reconnectAttempts and its sockets
    lastClient        \* what the last InterviewWebSocketClient step was and did

intVars == <<questionBank, sessionContext, last, questionsSent>>
anaVars == <<analysisHistory, lastAnalysis>>
masVars == <<sessions, messageQueue, timers, submitted, routeRetries,
             routeFailures, lastRoute>>
feVars == <<frontend, lastFrontend>>
svcVars == <<service, lastService>>
edgeVars == <<lastEdge>>
wsVars == <<client, lastClient>>
\* The three backend agents, and the objects around them.
agentVars == <<intVars, anaVars, masVars>>
outerVars == <<feVars, svcVars, edgeVars, wsVars>>

----------------------------------------------------------------------------
(* Bounds and input sets *)

MaxAnswers == 2
MaxCustom == 1
MaxAnalyses == 3
MaxSessions == 1
MaxMessages == 1
MaxRetries == 2

SessionIds == {"s1"}

\* previousFeedback.score values a next-question request may carry (tenths).
ScoreInputs == {0, 59, 60, 79, 80}
\* previousFeedback: <<>> is a request without previous feedback.
FeedbackInputs == {<<>>} \cup {<<s>> : s \in ScoreInputs}

\* Questions a caller may hand to addCustomQuestion.
CustomInputs ==
    { [category |-> "technical", difficulty |-> "medium"],
      [category |-> "culture", difficulty |-> "easy"] }

Undefined == "undefined"

\* The sessions analyze-answer requests are made for.
AnalysisSessions == {"s1", "s2"}

\* content.category of an analyze-answer request; only introduction and
\* experience have a canned analysis of their own.
RequestCategories == {"introduction", "experience", "technical"}

\* analysis.score values a successful backend response may carry (tenths).
BackendScores == {0, 70, 110}

\* What the call to the scoring backend can do: fetch rejects, the body is
\* not JSON, success=false, success=true without an analysis, or success=true
\* with an analysis carrying a score.
BackendOutcomes ==
    { [kind |-> k, score |-> 0] :
          k \in {"throws", "unparsable", "failure", "no-analysis"} }
    \cup { [kind |-> "ok", score |-> sc] : sc \in BackendScores }

\* message.to of the messages agents hand to the master.
Recipients ==
    {"interviewer-agent", "analyzer-agent", "frontend-agent", "all", "nobody"}

\* message.sessionId of those messages: the id createSession generates first,
\* and an id no session ever has.
MessageSessionIds == {"session-1", "bogus"}

AgentMessages ==
    { [id |-> "msg", to |-> t, sessionId |-> sid] :
          t \in Recipients, sid \in MessageSessionIds }

\* Math.random() * 1 - 0.5, in hundredths: a value of [-0.5, 0.5).
MockAdjustments == {-50, 0, 49}

----------------------------------------------------------------------------
(* InterviewerAgent *)

InitialQuestionBank ==
    << [id |-> "intro-1",      category |-> "introduction", difficulty |-> "easy"],
       [id |-> "experience-1", category |-> "experience",   difficulty |-> "medium"],
       [id |-> "technical-1",  category |-> "technical",    difficulty |-> "medium"],
       [id |-> "leadership-1", category |-> "leadership",   difficulty |-> "hard"],
       [id |-> "conflict-1",   category |-> "behavioral",   difficulty |-> "hard"],
       [id |-> "growth-1",     category |-> "development",  difficulty |-> "medium"] >>

BankIds(bank) == {bank[i].id : i \in 1..Len(bank)}

CustomCount(bank) == Len(bank) - Len(InitialQuestionBank)

\* The id addCustomQuestion generates: unique per call.
CustomId(bank) == "custom-" \o ToString(CustomCount(bank) + 1)

\* The context handleStartSession stores.
NewContext == [questionsAsked |-> <<>>, difficulty |-> "easy"]

\* The entry handleCandidateAnswer pushes: { questionId, question, answer,
\* timestamp }. It has no category field.
AskedEntry(qid) == [questionId |-> qid]

\* A property read of an entry: a field the entry lacks reads as undefined.
EntryCategory(e) == IF "category" \in DOMAIN e THEN e.category ELSE Undefined

\* Mutant: the most recent answer is not counted as asked.
AskedQuestionIdsButLast(ctx) ==
    {ctx.questionsAsked[i].questionId : i \in 1..(Len(ctx.questionsAsked) - 1)}

AskedQuestionIds(ctx) ==
    {ctx.questionsAsked[i].questionId : i \in 1..Len(ctx.questionsAsked)}

\* Mutant: the difficulty test is dropped from the filter.
AvailableQuestionsAnyDifficulty(bank, ctx) ==
    LET Keep(q) == q.id \notin AskedQuestionIds(ctx)
    IN  SelectSeq(bank, Keep)

AvailableQuestions(bank, ctx) ==
    LET Keep(q) == /\ q.id \notin AskedQuestionIds(ctx)
                   /\ (q.difficulty = ctx.difficulty \/ Len(ctx.questionsAsked) = 0)
    IN  SelectSeq(bank, Keep)

\* Mutant: the fallback does not filter out the asked questions.
RemainingQuestionsUnfiltered(bank, ctx) == bank

RemainingQuestions(bank, ctx) ==
    LET Keep(q) == q.id \notin AskedQuestionIds(ctx)
    IN  SelectSeq(bank, Keep)

LastCategory(ctx) ==
    IF Len(ctx.questionsAsked) > 0
    THEN EntryCategory(ctx.questionsAsked[Len(ctx.questionsAsked)])
    ELSE "null"

DifferentCategoryQuestions(bank, ctx) ==
    LET Keep(q) == q.category # LastCategory(ctx)
    IN  SelectSeq(AvailableQuestions(bank, ctx), Keep)

SelectedQuestions(bank, ctx) ==
    IF Len(DifferentCategoryQuestions(bank, ctx)) > 0
    THEN DifferentCategoryQuestions(bank, ctx)
    ELSE AvailableQuestions(bank, ctx)

\* Mutant: no fallback to the remaining questions of another difficulty.
SelectNextQuestionNoFallback(bank, ctx) ==
    IF Len(AvailableQuestions(bank, ctx)) = 0
    THEN {<<>>}
    ELSE {<<SelectedQuestions(bank, ctx)[i]>> :
              i \in 1..Len(SelectedQuestions(bank, ctx))}

\* Mutant: the fallback returns the last of the remaining questions.
SelectNextQuestionLastRemaining(bank, ctx) ==
    IF Len(AvailableQuestions(bank, ctx)) = 0
    THEN IF Len(RemainingQuestions(bank, ctx)) = 0
         THEN {<<>>}
         ELSE {<<RemainingQuestions(bank, ctx)[Len(RemainingQuestions(bank, ctx))]>>}
    ELSE {<<SelectedQuestions(bank, ctx)[i]>> :
              i \in 1..Len(SelectedQuestions(bank, ctx))}

\* selectNextQuestion: the set of values it can return, each <<>> (null) or
\* <<q>>; Math.random picks any index of selectedQuestions.
SelectNextQuestion(bank, ctx) ==
    IF Len(AvailableQuestions(bank, ctx)) = 0
    THEN IF Len(RemainingQuestions(bank, ctx)) = 0
         THEN {<<>>}
         ELSE {<<RemainingQuestions(bank, ctx)[1]>>}
    ELSE {<<SelectedQuestions(bank, ctx)[i]>> :
              i \in 1..Len(SelectedQuestions(bank, ctx))}

\* The difficulty adaptation of handleNextQuestion; fb is <<>> or <<score>>.
\* if (previousFeedback?.score) is a truthiness test: a score of 0 is skipped.
AdjustDifficulty(fb, difficulty) ==
    IF fb # <<>> /\ fb[1] # 0
    THEN IF fb[1] >= 80 THEN "hard"
         ELSE IF fb[1] >= 60 THEN "medium"
         ELSE "easy"
    ELSE difficulty

GenerateInterviewSummary(ctx) ==
    [ totalQuestions    |-> Len(ctx.questionsAsked),
      categoriesCovered |-> {EntryCategory(ctx.questionsAsked[i]) :
                                 i \in 1..Len(ctx.questionsAsked)},
      finalDifficulty   |-> ctx.difficulty ]

\* The messages and events a handler emits.
QuestionMessage(q) ==
    [event |-> "send-message", to |-> "frontend-agent", type |-> "question",
     command |-> "", questionId |-> q.id, category |-> q.category,
     difficulty |-> q.difficulty, summary |-> <<>>]

AnswerMessage(qid) ==
    [event |-> "send-message", to |-> "analyzer-agent", type |-> "answer",
     command |-> "", questionId |-> qid, category |-> "",
     difficulty |-> "", summary |-> <<>>]

CompleteMessage(ctx) ==
    [event |-> "send-message", to |-> "frontend-agent", type |-> "command",
     command |-> "interview-complete", questionId |-> "", category |-> "",
     difficulty |-> "", summary |-> <<GenerateInterviewSummary(ctx)>>]

ErrorEvent(type) ==
    [event |-> "error", to |-> "", type |-> type,
     command |-> "", questionId |-> "", category |-> "",
     difficulty |-> "", summary |-> <<>>]

Handled(op, sid, qid, fb, out) ==
    [op |-> op, sid |-> sid, questionId |-> qid, feedback |-> fb, out |-> out]

TotalAnswers ==
    LET RECURSIVE Sum(_)
        Sum(S) == IF S = {} THEN 0
                  ELSE LET s == CHOOSE x \in S : TRUE
                       IN  Len(sessionContext[s].questionsAsked) + Sum(S \ {s})
    IN  Sum(DOMAIN sessionContext)

IntInit ==
    /\ questionBank = InitialQuestionBank
    /\ sessionContext = << >>
    /\ last = Handled("init", "", "", <<>>, <<>>)
    /\ questionsSent = [s \in SessionIds |-> <<>>]

\* handleStartSession: (re)creates the context and sends the first question.
StartSession(sid, track) ==
    \E r \in SelectNextQuestion(questionBank, NewContext) :
        /\ sessionContext' = (sid :> NewContext) @@ sessionContext
        /\ last' = Handled("start-session", sid, "", <<>>, <<QuestionMessage(r[1])>>)
        /\ questionsSent' = IF track
                            THEN [questionsSent EXCEPT ![sid] = <<r[1].id>>]
                            ELSE questionsSent
        /\ UNCHANGED questionBank

\* Mutant: an answer for an unknown session creates the session's context.
CandidateAnswerCreates(sid, qid) ==
    /\ sessionContext' =
           (sid :> [questionsAsked |-> Append(
                        IF sid \in DOMAIN sessionContext
                        THEN sessionContext[sid].questionsAsked ELSE <<>>,
                        AskedEntry(qid)),
                    difficulty |-> IF sid \in DOMAIN sessionContext
                                   THEN sessionContext[sid].difficulty ELSE "easy"])
               @@ sessionContext
    /\ last' = Handled("candidate-answer", sid, qid, <<>>, <<AnswerMessage(qid)>>)
    /\ UNCHANGED <<questionBank, questionsSent>>

\* handleCandidateAnswer: forwards the answer and records it in questionsAsked.
CandidateAnswer(sid, qid) ==
    /\ IF sid \in DOMAIN sessionContext
       THEN /\ sessionContext' =
                 [sessionContext EXCEPT ![sid].questionsAsked =
                      Append(@, AskedEntry(qid))]
            /\ last' = Handled("candidate-answer", sid, qid, <<>>, <<AnswerMessage(qid)>>)
       ELSE /\ last' = Handled("candidate-answer", sid, qid, <<>>,
                               <<ErrorEvent("answer-handling")>>)
            /\ UNCHANGED sessionContext
    /\ UNCHANGED <<questionBank, questionsSent>>

\* Mutant: a session whose interview ends is removed from sessionContext.
NextQuestionEvicts(sid, fb, track) ==
    IF sid \in DOMAIN sessionContext
    THEN LET ctx == [sessionContext[sid] EXCEPT
                        !.difficulty = AdjustDifficulty(fb, @)]
         IN  \E r \in SelectNextQuestion(questionBank, ctx) :
                /\ sessionContext' =
                       IF r = <<>>
                       THEN [s \in DOMAIN sessionContext \ {sid} |-> sessionContext[s]]
                       ELSE [sessionContext EXCEPT ![sid] = ctx]
                /\ last' = Handled("next-question", sid, "", fb,
                                   IF r = <<>> THEN <<CompleteMessage(ctx)>>
                                   ELSE <<QuestionMessage(r[1])>>)
                /\ questionsSent' =
                       IF track /\ r # <<>>
                       THEN [questionsSent EXCEPT ![sid] = Append(@, r[1].id)]
                       ELSE questionsSent
                /\ UNCHANGED questionBank
    ELSE /\ last' = Handled("next-question", sid, "", fb, <<ErrorEvent("next-question")>>)
         /\ UNCHANGED <<questionBank, sessionContext, questionsSent>>

\* handleNextQuestion: adapts the difficulty, then selects and sends the next
\* question or ends the interview.
NextQuestion(sid, fb, track) ==
    IF sid \in DOMAIN sessionContext
    THEN LET ctx == [sessionContext[sid] EXCEPT
                        !.difficulty = AdjustDifficulty(fb, @)]
         IN  \E r \in SelectNextQuestion(questionBank, ctx) :
                /\ sessionContext' = [sessionContext EXCEPT ![sid] = ctx]
                /\ last' = Handled("next-question", sid, "", fb,
                                   IF r = <<>> THEN <<CompleteMessage(ctx)>>
                                   ELSE <<QuestionMessage(r[1])>>)
                /\ questionsSent' =
                       IF track /\ r # <<>>
                       THEN [questionsSent EXCEPT ![sid] = Append(@, r[1].id)]
                       ELSE questionsSent
                /\ UNCHANGED questionBank
    ELSE /\ last' = Handled("next-question", sid, "", fb, <<ErrorEvent("next-question")>>)
         /\ UNCHANGED <<questionBank, sessionContext, questionsSent>>

\* addCustomQuestion: appends the question under a fresh id.
AddCustomQuestion(c) ==
    /\ questionBank' = Append(questionBank,
                              [id |-> CustomId(questionBank),
                               category |-> c.category,
                               difficulty |-> c.difficulty])
    /\ last' = Handled("add-custom", "", CustomId(questionBank), <<>>, <<>>)
    /\ UNCHANGED <<sessionContext, questionsSent>>

HandleStartSession ==
    /\ \E sid \in SessionIds : StartSession(sid, FALSE)
    /\ UNCHANGED <<anaVars, masVars, outerVars>>

HandleCandidateAnswer ==
    /\ TotalAnswers < MaxAnswers
    /\ \E sid \in SessionIds, qid \in BankIds(questionBank) :
           CandidateAnswer(sid, qid)
    /\ UNCHANGED <<anaVars, masVars, outerVars>>

HandleNextQuestion ==
    /\ \E sid \in SessionIds, fb \in FeedbackInputs : NextQuestion(sid, fb, FALSE)
    /\ UNCHANGED <<anaVars, masVars, outerVars>>

HandleAddCustomQuestion ==
    /\ CustomCount(questionBank) < MaxCustom
    /\ \E c \in CustomInputs : AddCustomQuestion(c)
    /\ UNCHANGED <<anaVars, masVars, outerVars>>

----------------------------------------------------------------------------
(* AnalyzerAgent *)

Max(a, b) == IF a >= b THEN a ELSE b
Min(a, b) == IF a <= b THEN a ELSE b

\* Math.round(x * 10) / 10 for x >= 0 given in hundredths; the result in tenths.
RoundToTenths(x) == (x + 5) \div 10

\* mockAnalyses[category].score, in tenths; an unknown category takes the
\* introduction's analysis.
MockBaseScore(category) == IF category = "experience" THEN 80 ELSE 75

\* generateMockAnalysis: the canned score moved by the random adjustment,
\* clamped to 1..10 and rounded to one decimal.
GenerateMockAnalysis(request, adj) ==
    LET adjusted == Max(100, Min(1000, MockBaseScore(request.category) * 10 + adj))
    IN  [score |-> RoundToTenths(adjusted), categoryScore |-> RoundToTenths(adjusted)]

\* Mutant: a backend failure is rethrown instead of replaced by the canned
\* analysis.
AnalyzeWithMistralRethrows(request, outcome, adj) ==
    IF outcome.kind = "ok"
    THEN <<[score |-> outcome.score, categoryScore |-> outcome.score]>>
    ELSE <<>>

\* analyzeWithMistral: <<analysis>> when it returns, <<>> when it throws. Every
\* failure inside its try block ends in generateMockAnalysis.
AnalyzeWithMistral(request, outcome, adj) ==
    IF outcome.kind = "ok"
    THEN <<[score |-> outcome.score, categoryScore |-> outcome.score]>>
    ELSE <<GenerateMockAnalysis(request, adj)>>

\* The feedback message of handleAnalyzeAnswer, with the session statistics
\* it carries.
FeedbackMessage(qid, analysis, stats) ==
    [event |-> "send-message", to |-> "frontend-agent", type |-> "feedback",
     questionId |-> qid, analysis |-> <<analysis>>, sessionStats |-> stats]

\* The session-summary command of handleGetSessionAnalysis.
SummaryMessage(stats, analyses) ==
    [event |-> "send-message", to |-> "frontend-agent", type |-> "command",
     questionId |-> "", analysis |-> <<>>, sessionStats |-> stats,
     analyses |-> analyses]

AnalysisFailed ==
    [event |-> "error", to |-> "", type |-> "analysis-failed",
     questionId |-> "", analysis |-> <<>>]

Analyzed(op, sid, outcome, out) ==
    [op |-> op, sid |-> sid, outcome |-> outcome, out |-> out]

HistoryOf(history, sid) == IF sid \in DOMAIN history THEN history[sid] ELSE <<>>

\* scores.reduce((sum, score) => sum + score, 0)
RECURSIVE SumOfScores(_)
SumOfScores(scores) ==
    IF scores = <<>> THEN 0 ELSE Head(scores) + SumOfScores(Tail(scores))

\* Math.round(averageScore * 10) / 10 for the mean total / n of scores given
\* in tenths; the result in tenths. Math.round rounds a half up.
RoundAverage(total, n) == (2 * total + n) \div (2 * n)

\* Mutant: a second half ahead by exactly 0.5 already counts as improving,
\* one behind by exactly 0.5 as declining.
TrendInclusive(scores) ==
    IF Len(scores) >= 3
    THEN LET half == Len(scores) \div 2
             firstHalf == SubSeq(scores, 1, half)
             secondHalf == SubSeq(scores, half + 1, Len(scores))
             n1 == Len(firstHalf)
             n2 == Len(secondHalf)
         IN  IF SumOfScores(secondHalf) * n1 >= (SumOfScores(firstHalf) + 5 * n1) * n2
             THEN "improving"
             ELSE IF SumOfScores(secondHalf) * n1 <= (SumOfScores(firstHalf) - 5 * n1) * n2
             THEN "declining"
             ELSE "stable"
    ELSE "stable"

\* The trend of getSessionStats. With scores in tenths,
\* secondAvg > firstAvg + 0.5 is sum2 / n2 > (sum1 + 5 * n1) / n1, compared
\* here without the divisions.
Trend(scores) ==
    IF Len(scores) >= 3
    THEN LET half == Len(scores) \div 2
             firstHalf == SubSeq(scores, 1, half)
             secondHalf == SubSeq(scores, half + 1, Len(scores))
             n1 == Len(firstHalf)
             n2 == Len(secondHalf)
         IN  IF SumOfScores(secondHalf) * n1 > (SumOfScores(firstHalf) + 5 * n1) * n2
             THEN "improving"
             ELSE IF SumOfScores(secondHalf) * n1 < (SumOfScores(firstHalf) - 5 * n1) * n2
             THEN "declining"
             ELSE "stable"
    ELSE "stable"

\* The statistics of a list of analyses. The areas of a non-empty list are
\* picked from the analyses' strengths and weaknesses, texts the model does
\* not carry; "area" stands for them.
StatsOf(analyses) ==
    IF Len(analyses) = 0
    THEN [averageScore |-> 0, totalQuestions |-> 0, strongestArea |-> "N/A",
          weakestArea |-> "N/A", overallTrend |-> "N/A"]
    ELSE LET scores == [i \in 1..Len(analyses) |-> analyses[i].score]
         IN  [averageScore   |-> RoundAverage(SumOfScores(scores), Len(scores)),
              totalQuestions |-> Len(analyses),
              strongestArea  |-> "area",
              weakestArea    |-> "area",
              overallTrend   |-> Trend(scores)]

\* Mutant: the statistics leave out the session's latest analysis.
GetSessionStatsButLast(history, sid) ==
    StatsOf(SubSeq(HistoryOf(history, sid), 1, Len(HistoryOf(history, sid)) - 1))

\* getSessionStats
GetSessionStats(history, sid) == StatsOf(HistoryOf(history, sid))

TotalAnalyses ==
    LET RECURSIVE Sum(_)
        Sum(S) == IF S = {} THEN 0
                  ELSE LET s == CHOOSE x \in S : TRUE
                       IN  Len(analysisHistory[s]) + Sum(S \ {s})
    IN  Sum(DOMAIN analysisHistory)

AnaInit ==
    /\ analysisHistory = << >>
    /\ lastAnalysis = Analyzed("init", "", [kind |-> "", score |-> 0], <<>>)

\* Mutant: one history array is shared, so the analysis is appended to the
\* history of every session.
AnalyzeAnswerShared(sid, request, outcome, adj) ==
    LET result == AnalyzeWithMistral(request, outcome, adj)
    IN  /\ analysisHistory' =
               [s \in DOMAIN analysisHistory \cup {sid} |->
                    Append(HistoryOf(analysisHistory, s), result[1])]
        /\ lastAnalysis' = Analyzed("analyze-answer", sid, outcome,
               <<FeedbackMessage(request.questionId, result[1],
                                 GetSessionStats(analysisHistory', sid))>>)

\* handleAnalyzeAnswer: analyses, stores the analysis and sends the feedback;
\* an exception anywhere becomes an 'error' event.
AnalyzeAnswer(sid, request, outcome, adj) ==
    LET result == AnalyzeWithMistral(request, outcome, adj)
    IN  IF result # <<>>
        THEN /\ analysisHistory' =
                    (sid :> Append(HistoryOf(analysisHistory, sid), result[1]))
                        @@ analysisHistory
             /\ lastAnalysis' = Analyzed("analyze-answer", sid, outcome,
                    <<FeedbackMessage(request.questionId, result[1],
                                      GetSessionStats(analysisHistory', sid))>>)
        ELSE /\ lastAnalysis' = Analyzed("analyze-answer", sid, outcome,
                                         <<AnalysisFailed>>)
             /\ UNCHANGED analysisHistory

HandleAnalyzeAnswer ==
    /\ TotalAnalyses < MaxAnalyses
    /\ \E sid \in AnalysisSessions, c \in RequestCategories, outcome \in BackendOutcomes :
         \E adj \in (IF outcome.kind = "ok" THEN {0} ELSE MockAdjustments) :
           AnalyzeAnswer(sid, [questionId |-> "intro-1", category |-> c], outcome, adj)
    /\ UNCHANGED <<intVars, masVars, outerVars>>

\* handleGetSessionAnalysis: sends the session's statistics and analyses.
HandleGetSessionAnalysis ==
    /\ \E sid \in AnalysisSessions :
           lastAnalysis' = Analyzed("get-session-analysis", sid,
                                    [kind |-> "", score |-> 0],
                                    <<SummaryMessage(GetSessionStats(analysisHistory, sid),
                                                     HistoryOf(analysisHistory, sid))>>)
    /\ UNCHANGED <<analysisHistory, intVars, masVars, outerVars>>

(* getSessionStats over given histories: session s1 has none, or one of up   *)
(* to MaxScores analyses.                                                   *)

MaxScores == 5

\* The scores of the given histories (tenths).
StatScores == {60, 65, 71}

RECURSIVE StatHistories(_)
StatHistories(n) ==
    IF n = 0 THEN {<<>>}
    ELSE StatHistories(n - 1) \cup
         { Append(h, [score |-> sc, categoryScore |-> sc]) :
               h \in {x \in StatHistories(n - 1) : Len(x) = n - 1},
               sc \in StatScores }

StatsInit ==
    /\ analysisHistory \in
           {<< >>} \cup {("s1" :> h) : h \in StatHistories(MaxScores) \ {<<>>}}
    /\ lastAnalysis = Analyzed("init", "", [kind |-> "", score |-> 0], <<>>)

----------------------------------------------------------------------------
(* MasterAgent *)

\* A counter kept per message; a message not yet counted reads 0.
Count(f, m) == IF m \in DOMAIN f THEN f[m] ELSE 0
Increment(f, m) == (m :> Count(f, m) + 1) @@ f

TotalRetries ==
    LET RECURSIVE Sum(_)
        Sum(S) == IF S = {} THEN 0
                  ELSE LET m == CHOOSE x \in S : TRUE
                       IN  routeRetries[m] + Sum(S \ {m})
    IN  Sum(DOMAIN routeRetries)

QueueCount(queue, m) == Cardinality({i \in 1..Len(queue) : queue[i] = m})

RouteEvent(name, m) == [name |-> name, message |-> m]

\* The master's state while one operation runs, with what the operation has
\* emitted, which forwards it has attempted and whether it threw.
MasterState ==
    [sessions |-> sessions, queue |-> messageQueue, timers |-> timers,
     failures |-> routeFailures, retries |-> routeRetries,
     events |-> <<>>, forwards |-> <<>>, threw |-> FALSE]

\* The id createSession generates: unique per call.
NewSessionId(ss) == "session-" \o ToString(Cardinality(DOMAIN ss) + 1)

NewSession == [status |-> "initialized", messageHistory |-> <<>>]

SessionCreated(sid) == [id |-> "created", to |-> "all", sessionId |-> sid]

SessionValid(st, m) == m.sessionId \in DOMAIN st.sessions

\* Mutant: only a message that was not retried before is re-queued.
HandleRoutingErrorOnce(st, m) ==
    IF Count(st.retries, m) >= 1
    THEN st
    ELSE [st EXCEPT !.queue = Append(@, m), !.timers = @ + 1]

\* handleRoutingError: queues the message and schedules one retry timeout.
HandleRoutingError(st, m) ==
    [st EXCEPT !.queue = Append(@, m), !.timers = @ + 1]

\* Mutant: the catch block rethrows instead of emitting 'routing-error'.
RouteFailedRethrows(st, m) ==
    [st EXCEPT !.failures = Increment(@, m), !.threw = TRUE]

\* The catch block of routeMessage: emits 'routing-error', whose listener is
\* handleRoutingError.
RouteFailed(st, m) ==
    HandleRoutingError(
        [st EXCEPT !.events = Append(@, RouteEvent("routing-error", m)),
                   !.failures = Increment(@, m)], m)

Routed(st, m) ==
    [st EXCEPT !.events = Append(@, RouteEvent("message-routed", m))]

StoreInHistory(st, m) ==
    [st EXCEPT !.sessions[m.sessionId].messageHistory = Append(@, m)]

\* forwardToInterviewerAgent and forwardToAnalyzerAgent issue one fetch;
\* forwardToFrontendAgent emits 'frontend-message'.
Forward(st, m) ==
    IF m.to \in {"interviewer-agent", "analyzer-agent"}
    THEN [st EXCEPT !.forwards = Append(@, m.to)]
    ELSE IF m.to = "frontend-agent"
    THEN [st EXCEPT !.forwards = Append(@, m.to),
                    !.events = Append(@, RouteEvent("frontend-message", m))]
    ELSE st

\* routeMessage for one recipient up to its await: the message is stored and
\* the forward is started.
RouteBegin(st, m) == Forward(StoreInHistory(st, m), m)

\* routeMessage after its await; ok is whether the fetch resolved with an ok
\* response (a forward to the frontend or to an unknown recipient cannot fail).
RouteSettle(st, m, ok) ==
    IF m.to \in {"interviewer-agent", "analyzer-agent"} /\ ~ok
    THEN RouteFailed(st, m)
    ELSE Routed(st, m)

CopyTo(m, agent) == [m EXCEPT !.to = agent]

\* broadcastMessage: routeMessage for a copy to each agent. The three calls
\* start in order; the frontend copy settles first, then the two fetches.
BroadcastMessage(st, m, okI, okA) ==
    LET cI == CopyTo(m, "interviewer-agent")
        cA == CopyTo(m, "analyzer-agent")
        cF == CopyTo(m, "frontend-agent")
        begun == RouteBegin(RouteBegin(RouteBegin(st, cI), cA), cF)
        front == RouteSettle(begun, cF, TRUE)
    IN  RouteSettle(RouteSettle(front, cI, okI), cA, okA)

\* routeMessage: validates the session, stores the message, forwards it by
\* recipient and emits 'message-routed'; any exception goes to the catch block.
RouteMessage(st, m, okI, okA) ==
    IF ~SessionValid(st, m)
    THEN RouteFailed(st, m)
    ELSE IF m.to = "all"
    THEN Routed(BroadcastMessage(StoreInHistory(st, m), m, okI, okA), m)
    ELSE RouteSettle(RouteBegin(st, m), m,
                     IF m.to = "interviewer-agent" THEN okI ELSE okA)

RouteRecord(op, m, st) ==
    [op |-> op, message |-> m, events |-> st.events,
     forwards |-> st.forwards, threw |-> st.threw]

Commit(op, m, st) ==
    /\ sessions' = st.sessions
    /\ messageQueue' = st.queue
    /\ timers' = st.timers
    /\ routeFailures' = st.failures
    /\ routeRetries' = st.retries
    /\ lastRoute' = RouteRecord(op, m, st)

MasInit ==
    /\ sessions = << >>
    /\ messageQueue = << >>
    /\ timers = 0
    /\ submitted = {}
    /\ routeRetries = << >>
    /\ routeFailures = << >>
    /\ lastRoute = [op |-> "init", message |-> SessionCreated(""),
                    events |-> <<>>, forwards |-> <<>>, threw |-> FALSE]

\* createSession: stores the session and broadcasts 'session-created'.
CreateSession ==
    /\ Cardinality(DOMAIN sessions) < MaxSessions
    /\ \E okI \in BOOLEAN, okA \in BOOLEAN :
         LET sid == NewSessionId(sessions)
             st == [MasterState EXCEPT !.sessions = (sid :> NewSession) @@ sessions]
         IN  Commit("create-session", SessionCreated(sid),
                    BroadcastMessage(st, SessionCreated(sid), okI, okA))
    /\ UNCHANGED <<submitted, intVars, anaVars, outerVars>>

\* The 'agent-message' listener: routeMessage.
AgentMessage ==
    /\ Cardinality(submitted) < MaxMessages
    /\ \E m \in AgentMessages \ submitted :
         /\ submitted' = submitted \cup {m}
         /\ \E okI \in BOOLEAN, okA \in BOOLEAN :
              Commit("agent-message", m, RouteMessage(MasterState, m, okI, okA))
    /\ UNCHANGED <<intVars, anaVars, outerVars>>

\* The timeout handleRoutingError schedules: it takes the head of the queue,
\* if any, and routes it again.
RetryTimeout ==
    /\ timers > 0
    /\ IF Len(messageQueue) > 0
       THEN LET m == Head(messageQueue)
                st == [MasterState EXCEPT !.timers = @ - 1,
                                          !.queue = Tail(@),
                                          !.retries = Increment(@, m)]
            IN  /\ TotalRetries < MaxRetries
                /\ \E okI \in BOOLEAN, okA \in BOOLEAN :
                     Commit("retry", m, RouteMessage(st, m, okI, okA))
       ELSE /\ timers' = timers - 1
            /\ UNCHANGED <<sessions, messageQueue, routeRetries, routeFailures, lastRoute>>
    /\ UNCHANGED <<submitted, intVars, anaVars, outerVars>>

----------------------------------------------------------------------------
(* FrontendAgent *)

MaxFrontendEvents == 3

FrontendSessions == {"s1", "s2"}

\* FrontendMessage.type.
FrontendTypes == {"start-interview", "submit-answer", "request-audio", "end-interview"}

\* BackendMessage.type with content.command; 'buffered' is a type the
\* BackendMessage interface allows and no case of handleBackendMessage handles.
BackendKinds ==
    { [type |-> "question", command |-> ""],
      [type |-> "feedback", command |-> ""],
      [type |-> "command",  command |-> "interview-complete"],
      [type |-> "command",  command |-> "unknown"],
      [type |-> "error",    command |-> ""],
      [type |-> "buffered", command |-> ""] }

\* A message for the frontend; n numbers the sendToFrontend calls, so that
\* two messages of one type stay distinct (the code gives them timestamps).
\* The content of a message that comes from a backend agent has n = 0.
ToFrontend(type, n) == [type |-> type, n |-> n]

\* The buffer entry sendToFrontend pushes.
Buffered(msg) == [type |-> "buffered", content |-> msg]

\* The buffer entry handleBackendMessage pushes: the backend message itself.
Raw(kind) == [type |-> kind.type, content |-> ToFrontend(kind.type, 0)]

BufferOf(buffer, sid) == IF sid \in DOMAIN buffer THEN buffer[sid] ELSE <<>>

OwedOf(owed, sid) == IF sid \in DOMAIN owed THEN owed[sid] ELSE <<>>

NewSessionState == [status |-> "active", currentQuestion |-> "null", answerCount |-> 0]

\* The agent's state while one handler runs, with what the handler has sent
\* on a connection and emitted as 'send-message' so far.
FrontendState ==
    [activeConnections |-> frontend.activeConnections,
     sessionStates     |-> frontend.sessionStates,
     messageBuffer     |-> frontend.messageBuffer,
     timers            |-> frontend.timers,
     owed              |-> frontend.owed,
     calls             |-> frontend.calls,
     handled           |-> frontend.handled,
     sent |-> <<>>, emitted |-> <<>>]

\* sendToFrontend: sends on the session's connection, or buffers the message
\* when the session has none. owed records the messages buffered this way.
SendToFrontend(st, sid, msg) ==
    IF sid \in st.activeConnections
    THEN [st EXCEPT !.sent = Append(@, msg)]
    ELSE [st EXCEPT
             !.messageBuffer =
                 (sid :> Append(BufferOf(st.messageBuffer, sid), Buffered(msg))) @@ @,
             !.owed = (sid :> Append(OwedOf(st.owed, sid), msg)) @@ @]

\* A handler's call of sendToFrontend with a message it has just built.
SendNew(st, sid, type) ==
    SendToFrontend([st EXCEPT !.calls = @ + 1], sid, ToFrontend(type, st.calls + 1))

EmitSendMessage(st, to, what) ==
    [st EXCEPT !.emitted = Append(@, [to |-> to, what |-> what])]

\* handleStartInterview: sets the session state, sets the session's buffer to
\* an empty array, asks the master for a session and acknowledges.
HandleStartInterview(st, sid) ==
    SendNew(
        EmitSendMessage(
            [st EXCEPT !.sessionStates = (sid :> NewSessionState) @@ @,
                       !.messageBuffer = (sid :> <<>>) @@ @],
            "master-agent", "create-session"),
        sid, "session-started")

\* The 'answer' message of handleSubmitAnswer: its metadata.answerIndex is the
\* session's answerCount at the time the message is built.
EmitAnswer(st, sid) ==
    [st EXCEPT !.emitted =
         Append(@, [to |-> "interviewer-agent", what |-> "answer",
                    answerIndex |-> st.sessionStates[sid].answerCount])]

\* Mutant: the message is built before answerCount is incremented.
HandleSubmitAnswerStaleIndex(st, sid) ==
    IF sid \notin DOMAIN st.sessionStates
    THEN SendNew(st, sid, "error")
    ELSE SendNew(
             [EmitAnswer(st, sid) EXCEPT !.sessionStates[sid].answerCount = @ + 1],
             sid, "answer-received")

\* handleSubmitAnswer; without a session state it throws, and the catch block
\* of handleFrontendMessage sends the error to the frontend.
HandleSubmitAnswer(st, sid) ==
    IF sid \notin DOMAIN st.sessionStates
    THEN SendNew(st, sid, "error")
    ELSE SendNew(
             EmitAnswer([st EXCEPT !.sessionStates[sid].answerCount = @ + 1], sid),
             sid, "answer-received")

HandleRequestAudio(st, sid) == EmitSendMessage(st, "interviewer-agent", "generate-audio")

HandleEndInterview(st, sid) ==
    SendNew(
        EmitSendMessage(
            IF sid \in DOMAIN st.sessionStates
            THEN [st EXCEPT !.sessionStates[sid].status = "completed"]
            ELSE st,
            "analyzer-agent", "generate-session-summary"),
        sid, "interview-ended")

\* handleFrontendMessage: dispatches on the message type.
FrontendMessage(st, sid, type) ==
    IF type = "start-interview" THEN HandleStartInterview(st, sid)
    ELSE IF type = "submit-answer" THEN HandleSubmitAnswer(st, sid)
    ELSE IF type = "request-audio" THEN HandleRequestAudio(st, sid)
    ELSE HandleEndInterview(st, sid)

HandleIncomingQuestion(st, sid) ==
    SendNew(
        IF sid \in DOMAIN st.sessionStates
        THEN [st EXCEPT !.sessionStates[sid].currentQuestion = "set"]
        ELSE st,
        sid, "new-question")

\* handleIncomingFeedback: sends the feedback and schedules the next-question
\* request one second later.
HandleIncomingFeedback(st, sid) ==
    [SendNew(st, sid, "feedback-received") EXCEPT !.timers = Append(@, sid)]

HandleIncomingCommand(st, sid, command) ==
    IF command = "interview-complete"
    THEN SendNew(st, sid, "interview-complete")
    ELSE st

\* handleBackendMessage: pushes the message onto the session's buffer, then
\* dispatches on its type.
BackendMessage(st, sid, kind) ==
    LET stored == [st EXCEPT !.messageBuffer =
                       (sid :> Append(BufferOf(st.messageBuffer, sid), Raw(kind))) @@ @]
    IN  IF kind.type = "question" THEN HandleIncomingQuestion(stored, sid)
        ELSE IF kind.type = "feedback" THEN HandleIncomingFeedback(stored, sid)
        ELSE IF kind.type = "command" THEN HandleIncomingCommand(stored, sid, kind.command)
        ELSE IF kind.type = "error" THEN SendNew(stored, sid, "error")
        ELSE stored

\* The forEach of handleConnectionEstablished over the entries i.. of the
\* buffer as it was when the loop started.
RECURSIVE Resend(_, _, _, _)
Resend(st, sid, entries, i) ==
    IF i > Len(entries) THEN st
    ELSE Resend(IF entries[i].type = "buffered"
                THEN SendToFrontend(st, sid, entries[i].content)
                ELSE st,
                sid, entries, i + 1)

\* handleConnectionEstablished: registers the connection, sends the buffered
\* messages and clears the buffer.
ConnectionEstablished(st, sid) ==
    LET connected == [st EXCEPT !.activeConnections = @ \cup {sid}]
        resent == Resend(connected, sid, BufferOf(st.messageBuffer, sid), 1)
    IN  [resent EXCEPT !.messageBuffer = (sid :> <<>>) @@ @]

Without(f, k) == [x \in DOMAIN f \ {k} |-> f[x]]

\* cleanupSession: forgets the session, its buffer and its connection.
CleanupSession(st, sid) ==
    [st EXCEPT !.sessionStates = Without(@, sid),
               !.messageBuffer = Without(@, sid),
               !.activeConnections = @ \ {sid},
               !.owed = Without(@, sid)]

FrontendCommit(op, sid, st) ==
    /\ frontend' = [activeConnections |-> st.activeConnections,
                    sessionStates     |-> st.sessionStates,
                    messageBuffer     |-> st.messageBuffer,
                    timers            |-> st.timers,
                    owed              |-> st.owed,
                    calls             |-> st.calls,
                    handled           |-> st.handled]
    /\ lastFrontend' = [op |-> op, sid |-> sid, sent |-> st.sent,
                        emitted |-> st.emitted,
                        owed |-> OwedOf(frontend.owed, sid)]

FeInit ==
    /\ frontend = [activeConnections |-> {}, sessionStates |-> << >>,
                   messageBuffer |-> << >>, timers |-> << >>,
                   owed |-> << >>, calls |-> 0, handled |-> 0]
    /\ lastFrontend = [op |-> "init", sid |-> "", sent |-> <<>>,
                       emitted |-> <<>>, owed |-> <<>>]

Handling == [FrontendState EXCEPT !.handled = @ + 1]

\* The 'frontend-message' listener.
HandleFrontendMessage ==
    /\ frontend.handled < MaxFrontendEvents
    /\ \E sid \in FrontendSessions, type \in FrontendTypes :
           FrontendCommit(type, sid, FrontendMessage(Handling, sid, type))
    /\ UNCHANGED <<agentVars, svcVars, edgeVars, wsVars>>

\* The 'backend-message' listener.
HandleBackendMessage ==
    /\ frontend.handled < MaxFrontendEvents
    /\ \E sid \in FrontendSessions, kind \in BackendKinds :
           FrontendCommit("backend-message", sid, BackendMessage(Handling, sid, kind))
    /\ UNCHANGED <<agentVars, svcVars, edgeVars, wsVars>>

\* The 'connection-established' listener. The messages owed to the session
\* are settled by it, delivered or not.
HandleConnectionEstablished ==
    /\ frontend.handled < MaxFrontendEvents
    /\ \E sid \in FrontendSessions :
           FrontendCommit("connection-established", sid,
               [ConnectionEstablished(Handling, sid) EXCEPT !.owed = Without(@, sid)])
    /\ UNCHANGED <<agentVars, svcVars, edgeVars, wsVars>>

HandleCleanupSession ==
    /\ frontend.handled < MaxFrontendEvents
    /\ \E sid \in DOMAIN frontend.sessionStates :
           FrontendCommit("cleanup-session", sid, CleanupSession(Handling, sid))
    /\ UNCHANGED <<agentVars, svcVars, edgeVars, wsVars>>

\* The timeout handleIncomingFeedback schedules: it emits the next-question
\* request.
NextQuestionTimeout ==
    /\ Len(frontend.timers) > 0
    /\ FrontendCommit("next-question-timeout", Head(frontend.timers),
           EmitSendMessage([FrontendState EXCEPT !.timers = Tail(@)],
                           "interviewer-agent", "next-question"))
    /\ UNCHANGED <<agentVars, svcVars, edgeVars, wsVars>>

----------------------------------------------------------------------------
(* InterviewService *)

MaxStarts == 2
MaxSubmits == 2

\* The ids of InterviewService.questionBank, in bank order.
ServiceQuestionBank ==
    << "intro-1", "experience-1", "technical-1", "leadership-1",
       "conflict-1", "growth-1", "innovation-1", "pressure-1" >>

\* sessionId before the first startSession.
NoSession == 0

\* The scores generateFeedback can return, in tenths: the template score of
\* 0..9 moved by up to 0.75, clamped to 1..10 and rounded to one decimal.
ServiceScores == {10, 65, 98}

QuestionEntry(id) == [type |-> "question", id |-> id, score |-> 0]
AnswerEntry == [type |-> "answer", id |-> "", score |-> 0]
FeedbackEntry(score) == [type |-> "feedback", id |-> "", score |-> score]

\* messageHistory.filter(m => m.type === type).length
CountOfType(history, type) ==
    Cardinality({i \in 1..Len(history) : history[i].type = type})

RECURSIVE SumScores(_, _)
SumScores(history, i) ==
    IF i > Len(history) THEN 0
    ELSE (IF history[i].type = "feedback" THEN history[i].score ELSE 0)
         + SumScores(history, i + 1)

\* Math.round(x * 10) / 10 for the mean x = total / n of scores given in
\* tenths; the result in tenths. Math.round rounds a half up.
RoundedMean(total, n) == (2 * total + n) \div (2 * n)

CalculateAverageScore(history) ==
    IF CountOfType(history, "feedback") = 0 THEN 0
    ELSE RoundedMean(SumScores(history, 1), CountOfType(history, "feedback"))

ServiceEvent(name, id, summary) == [name |-> name, id |-> id, summary |-> summary]

\* What one step of the service leaves: its state, the events it emitted and
\* the message of the error it threw ("" when it did not throw).
ServiceResult(svc, events, error) ==
    [service |-> svc, events |-> events, error |-> error]

\* startSession up to its await: a fresh session id, an empty history and
\* the first question next.
StartSessionCall(svc) ==
    ServiceResult(
        [svc EXCEPT !.sessionId = svc.starts + 1,
                    !.messageHistory = <<>>,
                    !.currentQuestionIndex = 0,
                    !.starts = @ + 1,
                    !.startsPending = @ + 1],
        <<>>, "")

\* startSession after its delay: schedules the first askNextQuestion.
StartSessionResume(svc) ==
    ServiceResult([svc EXCEPT !.startsPending = @ - 1, !.askTimers = @ + 1],
                  <<>>, "")

\* Mutant: the answer is accepted without a session.
SubmitAnswerCallUnguarded(svc) ==
    ServiceResult(
        [svc EXCEPT !.messageHistory = Append(@, AnswerEntry),
                    !.submits = @ + 1,
                    !.feedbackPending = @ + 1],
        << ServiceEvent("answer-submitted", "", <<>>),
           ServiceEvent("analysis-started", "", <<>>) >>, "")

\* submitAnswer up to its await.
SubmitAnswerCall(svc) ==
    IF svc.sessionId = NoSession
    THEN ServiceResult(svc, <<>>, "No active session")
    ELSE ServiceResult(
             [svc EXCEPT !.messageHistory = Append(@, AnswerEntry),
                         !.submits = @ + 1,
                         !.feedbackPending = @ + 1],
             << ServiceEvent("answer-submitted", "", <<>>),
                ServiceEvent("analysis-started", "", <<>>) >>, "")

\* submitAnswer after its delay: stores and emits the feedback and schedules
\* askNextQuestion.
SubmitAnswerResume(svc, score) ==
    ServiceResult(
        [svc EXCEPT !.messageHistory = Append(@, FeedbackEntry(score)),
                    !.feedbackPending = @ - 1,
                    !.askTimers = @ + 1],
        << ServiceEvent("feedback-received", "", <<>>) >>, "")

ServiceSummary(svc) ==
    [totalQuestions |-> CountOfType(svc.messageHistory, "question"),
     totalAnswers   |-> CountOfType(svc.messageHistory, "answer"),
     averageScore   |-> CalculateAverageScore(svc.messageHistory)]

ServiceEndInterview(svc) ==
    ServiceResult(svc,
        << ServiceEvent("interview-completed", "", <<ServiceSummary(svc)>>) >>, "")

\* Mutant: the index is not advanced.
AskNextQuestionStuck(svc) ==
    IF svc.currentQuestionIndex >= Len(ServiceQuestionBank)
    THEN ServiceEndInterview(svc)
    ELSE LET id == ServiceQuestionBank[svc.currentQuestionIndex + 1]
         IN  ServiceResult(
                 [svc EXCEPT !.messageHistory = Append(@, QuestionEntry(id))],
                 << ServiceEvent("question-asked", id, <<>>) >>, "")

\* askNextQuestion: the question at currentQuestionIndex (0-based), or the end
\* of the interview when the index has passed the bank.
AskNextQuestion(svc) ==
    IF svc.currentQuestionIndex >= Len(ServiceQuestionBank)
    THEN ServiceEndInterview(svc)
    ELSE LET id == ServiceQuestionBank[svc.currentQuestionIndex + 1]
         IN  ServiceResult(
                 [svc EXCEPT !.messageHistory = Append(@, QuestionEntry(id)),
                             !.currentQuestionIndex = @ + 1],
                 << ServiceEvent("question-asked", id, <<>>) >>, "")

ServiceCommit(op, result) ==
    /\ service' = result.service
    /\ lastService' = [op |-> op, events |-> result.events, error |-> result.error]

SvcInit ==
    /\ service = [sessionId |-> NoSession, messageHistory |-> <<>>,
                  currentQuestionIndex |-> 0,
                  startsPending |-> 0, feedbackPending |-> 0, askTimers |-> 0,
                  starts |-> 0, submits |-> 0]
    /\ lastService = [op |-> "init", events |-> <<>>, error |-> ""]

ServiceStartSession ==
    /\ service.starts < MaxStarts
    /\ ServiceCommit("start-session", StartSessionCall(service))
    /\ UNCHANGED <<agentVars, feVars, edgeVars, wsVars>>

ServiceStartDelay ==
    /\ service.startsPending > 0
    /\ ServiceCommit("start-session-resume", StartSessionResume(service))
    /\ UNCHANGED <<agentVars, feVars, edgeVars, wsVars>>

ServiceSubmitAnswer ==
    /\ service.submits < MaxSubmits
    /\ ServiceCommit("submit-answer", SubmitAnswerCall(service))
    /\ UNCHANGED <<agentVars, feVars, edgeVars, wsVars>>

ServiceAnalysisDelay ==
    /\ service.feedbackPending > 0
    /\ \E score \in ServiceScores :
           ServiceCommit("feedback", SubmitAnswerResume(service, score))
    /\ UNCHANGED <<agentVars, feVars, edgeVars, wsVars>>

\* The timeouts startSession and submitAnswer schedule: askNextQuestion.
ServiceAskTimeout ==
    /\ service.askTimers > 0
    /\ ServiceCommit("ask-next-question",
           AskNextQuestion([service EXCEPT !.askTimers = @ - 1]))
    /\ UNCHANGED <<agentVars, feVars, edgeVars, wsVars>>

(* A driven interview with the service: startSession is called once, and    *)
(* an answer is submitted only for a question that was asked and has no     *)
(* answer yet.                                                              *)

AwaitingAnswer ==
    CountOfType(service.messageHistory, "answer")
        < CountOfType(service.messageHistory, "question")

DrivenStartSession ==
    /\ service.starts = 0
    /\ ServiceCommit("start-session", StartSessionCall(service))
    /\ UNCHANGED <<agentVars, feVars, edgeVars, wsVars>>

DrivenSubmitAnswer ==
    /\ AwaitingAnswer
    /\ ServiceCommit("submit-answer", SubmitAnswerCall(service))
    /\ UNCHANGED <<agentVars, feVars, edgeVars, wsVars>>

----------------------------------------------------------------------------
(* The analyze-answer edge function *)

\* A request: its method, whether its body parses as JSON, and the question,
\* answer and category of the body (Undefined when the body lacks the field).
EdgeRequests ==
    [ method   : {"OPTIONS", "POST"},
      body     : {"json", "invalid"},
      question : {Undefined, "", "Q"},
      answer   : {Undefined, "", "A"},
      category : {Undefined, "technical"} ]

\* Deno.env.get('MISTRAL_API_KEY'): unset, set to the empty string, or set.
ApiKeys == {Undefined, "", "key"}

\* analysis.score values Mistral may return (tenths).
MistralScores == {30, 85}

\* What the fetch to the Mistral API can do: reject, answer with a non-OK
\* status, answer OK with a body that is not the expected JSON, answer OK with
\* a message content that is not JSON, or answer OK with a JSON analysis.
MistralOutcomes ==
    { [kind |-> k, status |-> 0, score |-> 0] : k \in {"rejects"} }
    \cup { [kind |-> "not-ok", status |-> s, score |-> 0] : s \in {401, 500} }
    \cup { [kind |-> k, status |-> 200, score |-> 0] :
               k \in {"ok-bad-body", "ok-not-json"} }
    \cup { [kind |-> "ok-json", status |-> 200, score |-> sc] : sc \in MistralScores }

\* The fallback analysis of the handler; its score of 7 in tenths.
FallbackAnalysis(category) ==
    [score        |-> 70,
     strengths    |-> <<"Clear communication", "Relevant experience mentioned">>,
     weaknesses   |-> <<"Could provide more specific examples",
                        "Answer could be more structured">>,
     improvements |-> <<"Use the STAR method (Situation, Task, Action, Result)",
                        "Practice providing concrete examples">>,
     category     |-> category]

\* The analysis JSON.parse yields from a content Mistral wrote.
MistralAnalysis(score) ==
    [score |-> score, strengths |-> <<"mistral">>, weaknesses |-> <<"mistral">>,
     improvements |-> <<"mistral">>, category |-> "mistral"]

Falsy(v) == v \in {Undefined, ""}

\* Mutant: the question and the answer are not checked.
ValidateKeyOnly(req, key) ==
    IF req.body = "invalid" THEN "Unexpected token"
    ELSE IF Falsy(key) THEN "Mistral API key not found"
    ELSE ""

\* The handler before its fetch: the message of the error it throws, or ""
\* when it goes on to call Mistral.
Validate(req, key) ==
    IF req.body = "invalid" THEN "Unexpected token"
    ELSE IF Falsy(req.question) \/ Falsy(req.answer)
    THEN "Question and answer are required"
    ELSE IF Falsy(key) THEN "Mistral API key not found"
    ELSE ""

\* Mutant: a call answered with a non-OK status is made a second time.
MistralCallsWithRetry(outcome) == IF outcome.kind = "not-ok" THEN 2 ELSE 1

\* The fetches one handler run issues once it has validated.
MistralCalls(outcome) == 1

\* Mutant: a content that is not JSON is an error like any other.
ParseAnalysisStrict(req, outcome) ==
    IF outcome.kind = "ok-json" THEN <<MistralAnalysis(outcome.score)>>
    ELSE <<>>

\* The inner try of the handler: <<analysis>>, with the fallback analysis
\* when JSON.parse throws; <<>> when reading the response body throws.
ParseAnalysis(req, outcome) ==
    IF outcome.kind = "ok-json" THEN <<MistralAnalysis(outcome.score)>>
    ELSE IF outcome.kind = "ok-not-json" THEN <<FallbackAnalysis(req.category)>>
    ELSE <<>>

CorsHeaders ==
    {"Access-Control-Allow-Origin", "Access-Control-Allow-Headers"}

\* The response of the catch block.
ErrorResponse(text, calls) ==
    [status |-> 500, headers |-> CorsHeaders \cup {"Content-Type"},
     success |-> <<FALSE>>, error |-> text, analysis |-> <<>>, calls |-> calls]

SuccessResponse(analysis, calls) ==
    [status |-> 200, headers |-> CorsHeaders \cup {"Content-Type"},
     success |-> <<TRUE>>, error |-> "", analysis |-> <<analysis>>, calls |-> calls]

\* The response to a CORS preflight: no body.
PreflightResponse ==
    [status |-> 200, headers |-> CorsHeaders,
     success |-> <<>>, error |-> "", analysis |-> <<>>, calls |-> 0]

\* The message of the error thrown after the fetch.
MistralError(outcome) ==
    IF outcome.kind = "rejects" THEN "fetch failed"
    ELSE IF outcome.kind = "not-ok"
    THEN "Mistral API error: " \o ToString(outcome.status)
    ELSE "Unexpected response"

\* The handler passed to serve: the response, with the number of fetches to
\* the Mistral API the handler made.
Serve(req, key, outcome) ==
    IF req.method = "OPTIONS" THEN PreflightResponse
    ELSE IF Validate(req, key) # ""
    THEN ErrorResponse(Validate(req, key), 0)
    ELSE IF ParseAnalysis(req, outcome) = <<>>
    THEN ErrorResponse(MistralError(outcome), MistralCalls(outcome))
    ELSE SuccessResponse(ParseAnalysis(req, outcome)[1], MistralCalls(outcome))

EdgeInit ==
    lastEdge = [op |-> "init",
                request |-> [method |-> "OPTIONS", body |-> "json",
                             question |-> Undefined, answer |-> Undefined,
                             category |-> Undefined],
                key |-> Undefined,
                outcome |-> [kind |-> "rejects", status |-> 0, score |-> 0],
                response |-> PreflightResponse]

\* The function keeps no state between requests: every request is handled
\* from the state the deployment starts in.
HandleRequest ==
    /\ lastEdge.op = "init"
    /\ \E req \in EdgeRequests, key \in ApiKeys, outcome \in MistralOutcomes :
           lastEdge' = [op |-> "request", request |-> req, key |-> key,
                        outcome |-> outcome, response |-> Serve(req, key, outcome)]
    /\ UNCHANGED <<agentVars, feVars, svcVars, wsVars>>

----------------------------------------------------------------------------
(* InterviewWebSocketClient *)

MaxSockets == 6
MaxConnects == 2

\* this.ws = null
NoSocket == 0

maxReconnectAttempts == 5
reconnectDelay == 1000

\* event.code of a close event: 1000 is a normal closure, 1006 an abnormal
\* one. A socket that never opened fails with 1006; so does a socket the
\* client closed before it had opened. An open socket, closed by the server
\* or by the client's close(1000), ends with either code.
CloseCodes(state) ==
    IF state \in {"connecting", "aborting"} THEN {1006} ELSE {1000, 1006}

\* new WebSocket(url) inside connect: a socket in state CONNECTING, which
\* this.ws now refers to.
NewSocket(c) ==
    [c EXCEPT !.created = @ + 1,
              !.sockets = ((c.created + 1) :> "connecting") @@ @,
              !.ws = c.created + 1]

\* Mutant: the delay doubles from the first attempt on.
ScheduleReconnectDoubled(c) ==
    [c EXCEPT !.reconnectAttempts = @ + 1,
              !.sinceOpen = @ + 1,
              !.reconnectTimers = @ + 1,
              !.delay = reconnectDelay * 2 ^ (c.reconnectAttempts + 1)]

\* attemptReconnect: counts the attempt and schedules connect after the
\* backoff delay. sinceOpen counts the attempts scheduled since the last open.
ScheduleReconnect(c) ==
    [c EXCEPT !.reconnectAttempts = @ + 1,
              !.sinceOpen = @ + 1,
              !.reconnectTimers = @ + 1,
              !.delay = reconnectDelay * 2 ^ ((c.reconnectAttempts + 1) - 1)]

\* ws.onopen
OnOpen(c, id) ==
    [c EXCEPT !.sockets[id] = "open", !.reconnectAttempts = 0, !.sinceOpen = 0]

\* ws.onclose: the socket is gone; an abnormal close is followed by a
\* reconnect attempt while fewer than maxReconnectAttempts were made.
OnClose(c, id, code) ==
    LET closed == [c EXCEPT !.sockets = [x \in DOMAIN @ \ {id} |-> @[x]]]
    IN  IF code # 1000 /\ c.reconnectAttempts < maxReconnectAttempts
        THEN ScheduleReconnect(closed)
        ELSE closed

\* ws.close(1000, ...) on the socket this.ws refers to; closing a socket
\* that has closed already does nothing.
CloseSocket(c) ==
    IF c.ws \in DOMAIN c.sockets
    THEN [c EXCEPT !.sockets[c.ws] =
                       IF @ = "open" THEN "closing"
                       ELSE IF @ = "connecting" THEN "aborting"
                       ELSE @]
    ELSE c

\* disconnect
Disconnect(c) ==
    IF c.ws # NoSocket
    THEN [CloseSocket(c) EXCEPT !.ws = NoSocket]
    ELSE c

ClientCommit(op, code, c) ==
    /\ client' = [c EXCEPT !.delay = 0]
    /\ lastClient' = [op |-> op, code |-> code, delay |-> c.delay,
                      attempts |-> client.reconnectAttempts]

WsInit ==
    /\ client = [ws |-> NoSocket, sockets |-> << >>, created |-> 0,
                 reconnectAttempts |-> 0, reconnectTimers |-> 0,
                 connects |-> 0, sinceOpen |-> 0, disconnected |-> FALSE,
                 delay |-> 0]
    /\ lastClient = [op |-> "init", code |-> 0, delay |-> 0, attempts |-> 0]

\* connect called by the owner of the client.
ClientConnect ==
    /\ client.connects < MaxConnects
    /\ client.created < MaxSockets
    /\ ClientCommit("connect", 0,
           [NewSocket(client) EXCEPT !.connects = @ + 1, !.disconnected = FALSE])
    /\ UNCHANGED <<agentVars, feVars, svcVars, edgeVars>>

SocketOpens ==
    /\ \E id \in DOMAIN client.sockets :
           /\ client.sockets[id] = "connecting"
           /\ ClientCommit("open", 0, OnOpen(client, id))
    /\ UNCHANGED <<agentVars, feVars, svcVars, edgeVars>>

SocketCloses ==
    /\ \E id \in DOMAIN client.sockets :
           \E code \in CloseCodes(client.sockets[id]) :
               ClientCommit("close", code, OnClose(client, id, code))
    /\ UNCHANGED <<agentVars, feVars, svcVars, edgeVars>>

\* The timeout attemptReconnect schedules: connect.
ReconnectTimeout ==
    /\ client.reconnectTimers > 0
    /\ client.created < MaxSockets
    /\ ClientCommit("reconnect", 0,
           NewSocket([client EXCEPT !.reconnectTimers = @ - 1]))
    /\ UNCHANGED <<agentVars, feVars, svcVars, edgeVars>>

\* disconnect called by the owner of the client.
ClientDisconnect ==
    /\ ClientCommit("disconnect", 0, [Disconnect(client) EXCEPT !.disconnected = TRUE])
    /\ UNCHANGED <<agentVars, feVars, svcVars, edgeVars>>

----------------------------------------------------------------------------
OuterInit == FeInit /\ SvcInit /\ EdgeInit /\ WsInit

----------------------------------------------------------------------------
(* A driven interview: one session over a fixed bank, in which every       *)
(* question sent is answered once (candidate-answer with that question's   *)
(* id) and every answer is followed by one next-question request.          *)

FlowSession == "s1"

\* The banks a driven interview runs over: the built-in six questions, and
\* the six with one custom question added before the session starts.
FlowBanks ==
    { InitialQuestionBank,
      Append(InitialQuestionBank,
             [id |-> CustomId(InitialQuestionBank),
              category |-> "technical", difficulty |-> "medium"]) }

\* The feedback of a driven interview: none, and one score per difficulty.
FlowFeedback == {<<>>, <<59>>, <<60>>, <<80>>}

QuestionSent == Len(last.out) = 1 /\ last.out[1].type = "question"

CompleteSent ==
    Len(last.out) = 1 /\ last.out[1].command = "interview-complete"

FlowInit ==
    /\ questionBank \in FlowBanks
    /\ sessionContext = << >>
    /\ last = Handled("init", "", "", <<>>, <<>>)
    /\ questionsSent = [s \in SessionIds |-> <<>>]
    /\ AnaInit
    /\ MasInit
    /\ OuterInit

FlowStart ==
    /\ last.op = "init"
    /\ StartSession(FlowSession, TRUE)
    /\ UNCHANGED <<anaVars, masVars, outerVars>>

FlowAnswer ==
    /\ last.op \in {"start-session", "next-question"}
    /\ QuestionSent
    /\ CandidateAnswer(FlowSession, last.out[1].questionId)
    /\ UNCHANGED <<anaVars, masVars, outerVars>>

FlowNextQuestion ==
    /\ last.op = "candidate-answer"
    /\ \E fb \in FlowFeedback : NextQuestion(FlowSession, fb, TRUE)
    /\ UNCHANGED <<anaVars, masVars, outerVars>>

FlowNext ==
    \/ FlowStart
    \/ FlowAnswer
    \/ FlowNextQuestion

----------------------------------------------------------------------------
(* Specifications *)

vars == <<questionBank, sessionContext, last, questionsSent,
          analysisHistory, lastAnalysis,
          sessions, messageQueue, timers, submitted, routeRetries,
          routeFailures, lastRoute,
          frontend, lastFrontend, service, lastService, lastEdge,
          client, lastClient>>

Init == IntInit /\ AnaInit /\ MasInit /\ OuterInit

\* InterviewerAgent under any interleaving of its handlers.
Next ==
    \/ HandleStartSession
    \/ HandleCandidateAnswer
    \/ HandleNextQuestion
    \/ HandleAddCustomQuestion

Spec == Init /\ [][Next]_vars

\* The driven interview; the driver keeps answering and requesting.
SpecFlow == FlowInit /\ [][FlowNext]_vars /\ WF_vars(FlowNext)

\* AnalyzerAgent under any sequence of analyze-answer requests.
AnaNext ==
    \/ HandleAnalyzeAnswer
    \/ HandleGetSessionAnalysis

SpecAnalyzer == Init /\ [][AnaNext]_vars

\* getSessionStats applied to given histories.
StatsHistoryInit == IntInit /\ StatsInit /\ MasInit /\ OuterInit

StatsNext == HandleGetSessionAnalysis

SpecStats == StatsHistoryInit /\ [][StatsNext]_vars

\* MasterAgent under any sequence of sessions, messages and retry timeouts.
MasNext ==
    \/ CreateSession
    \/ AgentMessage
    \/ RetryTimeout

SpecMaster == Init /\ [][MasNext]_vars

\* FrontendAgent under any sequence of frontend messages, backend messages,
\* connection events, clean-ups and next-question timeouts.
FeNext ==
    \/ HandleFrontendMessage
    \/ HandleBackendMessage
    \/ HandleConnectionEstablished
    \/ HandleCleanupSession
    \/ NextQuestionTimeout

SpecFrontend == Init /\ [][FeNext]_vars

\* InterviewService under any interleaving of its calls, delays and timeouts.
SvcNext ==
    \/ ServiceStartSession
    \/ ServiceStartDelay
    \/ ServiceSubmitAnswer
    \/ ServiceAnalysisDelay
    \/ ServiceAskTimeout

SpecService == Init /\ [][SvcNext]_vars

\* The driven interview with the service; delays and timeouts run out and
\* the candidate keeps answering.
DrivenNext ==
    \/ DrivenStartSession
    \/ ServiceStartDelay
    \/ DrivenSubmitAnswer
    \/ ServiceAnalysisDelay
    \/ ServiceAskTimeout

SpecInterview == Init /\ [][DrivenNext]_vars /\ WF_vars(DrivenNext)

\* The edge function under any sequence of requests.
EdgeNext == HandleRequest

SpecEdge == Init /\ [][EdgeNext]_vars

\* InterviewWebSocketClient under any interleaving of its owner's calls, the
\* sockets' events and the reconnect timeouts.
WsNext ==
    \/ ClientConnect
    \/ SocketOpens
    \/ SocketCloses
    \/ ReconnectTimeout
    \/ ClientDisconnect

SpecClient == Init /\ [][WsNext]_vars

----------------------------------------------------------------------------
(* Claims about InterviewerAgent *)

\* What the last handler left: the context it used, the ids recorded in
\* questionsAsked, and the bank questions still unasked at the current
\* difficulty.
LastKnown == last.sid \in DOMAIN sessionContext
LastContext == sessionContext[last.sid]
LastAskedIds ==
    {LastContext.questionsAsked[i].questionId :
         i \in 1..Len(LastContext.questionsAsked)}
LastEligible ==
    {i \in 1..Len(questionBank) :
         /\ questionBank[i].id \notin LastAskedIds
         /\ questionBank[i].difficulty = LastContext.difficulty}
\* The bank questions whose id is that of the most recently answered question.
LastAnswered ==
    {i \in 1..Len(questionBank) :
         /\ Len(LastContext.questionsAsked) > 0
         /\ questionBank[i].id =
                LastContext.questionsAsked[Len(LastContext.questionsAsked)].questionId}

DifficultyFor(s) ==
    IF s >= 80 THEN "hard" ELSE IF s >= 60 THEN "medium" ELSE "easy"

\* C3: a next-question request carrying a previous score s sets the session's
\* difficulty to hard (s >= 8), medium (6 <= s < 8) or easy (s < 6); a request
\* without previous feedback leaves the difficulty unchanged.
C3_DifficultyAdapts ==
    [][ ( /\ last'.op = "next-question"
          /\ last'.sid \in DOMAIN sessionContext )
        => sessionContext'[last'.sid].difficulty =
               IF last'.feedback = <<>>
               THEN sessionContext[last'.sid].difficulty
               ELSE DifficultyFor(last'.feedback[1]) ]_vars

\* C4: with at least one recorded answer and an unasked bank question of the
\* session's current difficulty, the question selected has that difficulty;
\* another difficulty is selected only when no such question remains.
C4_SelectsCurrentDifficulty ==
    ( /\ last.op = "next-question"
      /\ QuestionSent
      /\ Len(LastContext.questionsAsked) >= 1 )
    => /\ LastEligible # {} => last.out[1].difficulty = LastContext.difficulty
       /\ last.out[1].difficulty # LastContext.difficulty => LastEligible = {}

C4_Witness ==
    /\ last.op = "next-question"
    /\ QuestionSent
    /\ Len(LastContext.questionsAsked) >= 1
    /\ LastEligible # {}
    /\ LastContext.difficulty = "hard"
    /\ last.out[1].difficulty = "hard"

\* C5: when the previous answered question has a category and some eligible
\* question (unasked, of the current difficulty) is of another category, the
\* selected question's category differs from the previous question's.
C5_PrefersVariety ==
    ( /\ last.op = "next-question"
      /\ QuestionSent )
    => \A p \in LastAnswered :
           (\E i \in LastEligible :
                questionBank[i].category # questionBank[p].category)
           => last.out[1].category # questionBank[p].category

\* C6: the question selected is never one whose id is recorded in the
\* session's questionsAsked, on the filtered and on the fallback path.
C6_NeverRepeatsAsked ==
    ( /\ last.op \in {"start-session", "next-question"}
      /\ QuestionSent )
    => last.out[1].questionId \notin LastAskedIds

\* The fallback path: no unasked question of the current difficulty is left
\* and a question of another difficulty is sent.
C6_Witness ==
    /\ last.op = "next-question"
    /\ QuestionSent
    /\ Len(LastContext.questionsAsked) >= 1
    /\ LastEligible = {}
    /\ last.out[1].difficulty # LastContext.difficulty

\* C7: next-question for a known session emits interview-complete exactly
\* when every bank question's id is recorded in questionsAsked; otherwise it
\* emits exactly one question message.
C7_CompleteIffAllAsked ==
    (last.op = "next-question" /\ LastKnown)
    => /\ CompleteSent <=>
              \A i \in 1..Len(questionBank) : questionBank[i].id \in LastAskedIds
       /\ ~CompleteSent => QuestionSent
       /\ Len(last.out) = 1

C7_Witness ==
    /\ last.op = "next-question"
    /\ LastKnown
    /\ CompleteSent
    /\ \A i \in 1..Len(questionBank) : questionBank[i].id \in LastAskedIds

\* C8: a driven interview over a bank of N questions never sends a question
\* twice, and eventually emits interview-complete, after exactly N questions
\* and with totalQuestions = N.
C8_InterviewTerminates ==
    /\ <>CompleteSent
    /\ [](Cardinality({questionsSent[FlowSession][i] :
                           i \in 1..Len(questionsSent[FlowSession])})
              = Len(questionsSent[FlowSession]))
    /\ [](CompleteSent =>
            /\ Len(questionsSent[FlowSession]) = Len(questionBank)
            /\ last.out[1].summary[1].totalQuestions = Len(questionBank))

C8_Witness ==
    /\ CompleteSent
    /\ Len(questionBank) = Len(InitialQuestionBank) + 1
    /\ Len(questionsSent[FlowSession]) = Len(questionBank)
    /\ last.out[1].summary[1].totalQuestions = Len(questionBank)

----------------------------------------------------------------------------
(* Claims about AnalyzerAgent *)

\* C1: whatever the backend call does, an analyze-answer request appends
\* exactly one analysis to its session's history and emits exactly one
\* feedback message for frontend-agent, and no 'error' event.
C1_AlwaysOneFeedback ==
    [][ lastAnalysis'.op = "analyze-answer"
        => /\ Len(lastAnalysis'.out) = 1
           /\ lastAnalysis'.out[1].event = "send-message"
           /\ lastAnalysis'.out[1].type = "feedback"
           /\ lastAnalysis'.out[1].to = "frontend-agent"
           /\ lastAnalysis'.sid \in DOMAIN analysisHistory'
           /\ analysisHistory'[lastAnalysis'.sid] =
                  Append(IF lastAnalysis'.sid \in DOMAIN analysisHistory
                         THEN analysisHistory[lastAnalysis'.sid] ELSE <<>>,
                         lastAnalysis'.out[1].analysis[1])
           /\ \A o \in DOMAIN analysisHistory :
                  o # lastAnalysis'.sid =>
                      /\ o \in DOMAIN analysisHistory'
                      /\ analysisHistory'[o] = analysisHistory[o] ]_vars

\* A backend failure answered with feedback, in a session that already had
\* an analysis.
C1_Witness ==
    /\ lastAnalysis.op = "analyze-answer"
    /\ lastAnalysis.outcome.kind \in {"throws", "unparsable", "failure"}
    /\ lastAnalysis.out[1].type = "feedback"
    /\ Len(analysisHistory[lastAnalysis.sid]) = 2

\* C2: every analysis stored in a history or sent in a feedback message has
\* score and categoryScore within 1..10, whatever the backend returned.
C2_ScoresInRange ==
    /\ \A sid \in DOMAIN analysisHistory :
           \A i \in 1..Len(analysisHistory[sid]) :
               /\ analysisHistory[sid][i].score \in 10..100
               /\ analysisHistory[sid][i].categoryScore \in 10..100
    /\ \A i \in 1..Len(lastAnalysis.out) :
           \A j \in 1..Len(lastAnalysis.out[i].analysis) :
               /\ lastAnalysis.out[i].analysis[j].score \in 10..100
               /\ lastAnalysis.out[i].analysis[j].categoryScore \in 10..100

----------------------------------------------------------------------------
(* Claims about MasterAgent *)

\* C9 as stated: a message is routed again by the retry at most once.
C9_SingleRetry ==
    \A m \in DOMAIN routeRetries : routeRetries[m] <= 1

\* C9: every routing failure, of a first attempt or of a retry, queues the
\* message once and schedules one retry: the retries made for a message and
\* its entries still queued add up to its failures.
C9_RetryPerFailure ==
    /\ timers = Len(messageQueue)
    /\ DOMAIN routeRetries \subseteq DOMAIN routeFailures
    /\ \A i \in 1..Len(messageQueue) : messageQueue[i] \in DOMAIN routeFailures
    /\ \A m \in DOMAIN routeFailures :
           Count(routeRetries, m) + QueueCount(messageQueue, m) = routeFailures[m]

\* A message whose retry failed and that was retried a second time.
C9_Witness ==
    \E m \in DOMAIN routeRetries :
        /\ routeRetries[m] = 2
        /\ routeFailures[m] >= 2
        /\ lastRoute.op = "retry"
        /\ lastRoute.message = m

\* C10: routing a message whose sessionId is no key of the sessions map
\* stores it in no history, forwards it to no agent, emits 'routing-error'
\* and no 'message-routed', and does not throw.
C10_UnknownSessionRejected ==
    [][ ( /\ lastRoute'.op \in {"agent-message", "retry"}
          /\ lastRoute'.message.sessionId \notin DOMAIN sessions )
        => /\ sessions' = sessions
           /\ lastRoute'.forwards = <<>>
           /\ lastRoute'.events =
                  <<RouteEvent("routing-error", lastRoute'.message)>>
           /\ lastRoute'.threw = FALSE ]_vars

C10_Witness ==
    /\ lastRoute.op = "agent-message"
    /\ lastRoute.message.sessionId \notin DOMAIN sessions
    /\ DOMAIN sessions # {}
    /\ lastRoute.message.to = "analyzer-agent"
    /\ Len(lastRoute.events) = 1

----------------------------------------------------------------------------
(* Claims about FrontendAgent *)

\* C11: when connection-established is handled for a session, the messages
\* passed to sendToFrontend for it while it had no connection are sent on the
\* connection exactly once and in their original order, and the session's
\* buffer is empty afterwards.
C11_BufferedDeliveredOnce ==
    lastFrontend.op = "connection-established"
    => /\ LET FromSendToFrontend(m) == m.n > 0
           IN  SelectSeq(lastFrontend.sent, FromSendToFrontend) = lastFrontend.owed
       /\ BufferOf(frontend.messageBuffer, lastFrontend.sid) = <<>>

----------------------------------------------------------------------------
(* Claims about InterviewService *)

\* C12: submitAnswer called while no session has been started throws
\* 'No active session', emits no event, and leaves the message history, the
\* pending analyses and the scheduled askNextQuestion calls as they were.
C12_SubmitWithoutSessionThrows ==
    [][ ( /\ lastService'.op = "submit-answer"
          /\ service.sessionId = NoSession )
        => /\ lastService'.error = "No active session"
           /\ lastService'.events = <<>>
           /\ service'.messageHistory = service.messageHistory
           /\ service'.feedbackPending = service.feedbackPending
           /\ service'.askTimers = service.askTimers
           /\ service' = service ]_vars

C12_Witness ==
    /\ lastService.op = "submit-answer"
    /\ lastService.error = "No active session"
    /\ service.sessionId = NoSession
    /\ service.messageHistory = <<>>
    /\ service.askTimers = 0

\* The ids of the questions asked so far, in the order they were asked.
AskedIds ==
    LET IsQuestion(m) == m.type = "question"
        asked == SelectSeq(service.messageHistory, IsQuestion)
    IN  [k \in 1..Len(asked) |-> asked[k].id]

QuestionAsked ==
    /\ lastService.op = "ask-next-question"
    /\ Len(lastService.events) = 1
    /\ lastService.events[1].name = "question-asked"

InterviewCompleted ==
    /\ lastService.op = "ask-next-question"
    /\ Len(lastService.events) = 1
    /\ lastService.events[1].name = "interview-completed"

\* C13: in a driven interview the k-th 'question-asked' event carries the
\* k-th bank question, no question is asked twice, and 'interview-completed'
\* is eventually emitted, after the feedback for the 8th question, with
\* totalQuestions = 8 and totalAnswers = 8.
C13_AsksInBankOrder ==
    /\ [](QuestionAsked =>
             lastService.events[1].id = ServiceQuestionBank[Len(AskedIds)])
    /\ [](\A k \in 1..Len(AskedIds) : AskedIds[k] = ServiceQuestionBank[k])
    /\ <>InterviewCompleted
    /\ [](InterviewCompleted =>
             /\ AskedIds = ServiceQuestionBank
             /\ CountOfType(service.messageHistory, "feedback") = 8
             /\ lastService.events[1].summary[1].totalQuestions = 8
             /\ lastService.events[1].summary[1].totalAnswers = 8)

C13_Witness ==
    /\ InterviewCompleted
    /\ AskedIds = ServiceQuestionBank
    /\ service.currentQuestionIndex = 8
    /\ lastService.events[1].summary[1].totalQuestions = 8
    /\ lastService.events[1].summary[1].totalAnswers = 8

----------------------------------------------------------------------------
(* Claims about the analyze-answer edge function *)

Requested == lastEdge.op = "request"

\* A request that is not a CORS preflight and passes the handler's checks.
ValidRequest ==
    /\ Requested
    /\ lastEdge.request.method # "OPTIONS"
    /\ lastEdge.request.body = "json"
    /\ lastEdge.request.question \notin {Undefined, ""}
    /\ lastEdge.request.answer \notin {Undefined, ""}
    /\ lastEdge.key \notin {Undefined, ""}

\* C14: a request (other than a CORS preflight) whose question or answer is
\* missing or empty, or one handled without MISTRAL_API_KEY, gets status 500
\* with success=false and an error text, and no request to Mistral is made.
C14_ValidatesBeforeCalling ==
    ( /\ Requested
      /\ lastEdge.request.method # "OPTIONS"
      /\ \/ lastEdge.request.question \in {Undefined, ""}
         \/ lastEdge.request.answer \in {Undefined, ""}
         \/ lastEdge.key \in {Undefined, ""} )
    => /\ lastEdge.response.status = 500
       /\ lastEdge.response.success = <<FALSE>>
       /\ lastEdge.response.error # ""
       /\ lastEdge.response.analysis = <<>>
       /\ lastEdge.response.calls = 0

\* An empty answer, with the key set and Mistral ready to answer.
C14_Witness ==
    /\ Requested
    /\ lastEdge.request.method = "POST"
    /\ lastEdge.request.body = "json"
    /\ lastEdge.request.question = "Q"
    /\ lastEdge.request.answer = ""
    /\ lastEdge.key = "key"
    /\ lastEdge.outcome.kind = "ok-json"
    /\ lastEdge.response.status = 500
    /\ lastEdge.response.error = "Question and answer are required"
    /\ lastEdge.response.calls = 0

\* C15: when Mistral answers OK with a content that is not valid JSON, the
\* response has status 200, success=true and the fixed fallback analysis:
\* score 7, the request's category, the fixed texts.
C15_FallbackOnUnparsableContent ==
    (ValidRequest /\ lastEdge.outcome.kind = "ok-not-json")
    => /\ lastEdge.response.status = 200
       /\ lastEdge.response.success = <<TRUE>>
       /\ lastEdge.response.error = ""
       /\ Len(lastEdge.response.analysis) = 1
       /\ lastEdge.response.analysis[1].score = 70
       /\ lastEdge.response.analysis[1].category = lastEdge.request.category
       /\ lastEdge.response.analysis[1].strengths =
              <<"Clear communication", "Relevant experience mentioned">>
       /\ lastEdge.response.analysis[1].weaknesses =
              <<"Could provide more specific examples",
                "Answer could be more structured">>
       /\ lastEdge.response.analysis[1].improvements =
              <<"Use the STAR method (Situation, Task, Action, Result)",
                "Practice providing concrete examples">>

C15_Witness ==
    /\ ValidRequest
    /\ lastEdge.outcome.kind = "ok-not-json"
    /\ lastEdge.request.category = "technical"
    /\ lastEdge.response.status = 200
    /\ lastEdge.response.analysis[1].score = 70
    /\ lastEdge.response.analysis[1].category = "technical"

\* C16: a request causes at most one call to the Mistral API; a call answered
\* with a non-OK status gives status 500 with success=false and no analysis;
\* every response carries both CORS headers.
C16_SingleCallAndCors ==
    Requested
    => /\ lastEdge.response.calls <= 1
       /\ {"Access-Control-Allow-Origin", "Access-Control-Allow-Headers"}
              \subseteq lastEdge.response.headers
       /\ (ValidRequest /\ lastEdge.outcome.kind = "not-ok")
              => /\ lastEdge.response.calls = 1
                 /\ lastEdge.response.status = 500
                 /\ lastEdge.response.success = <<FALSE>>
                 /\ lastEdge.response.analysis = <<>>

C16_Witness ==
    /\ ValidRequest
    /\ lastEdge.outcome.kind = "not-ok"
    /\ lastEdge.outcome.status = 401
    /\ lastEdge.response.calls = 1
    /\ lastEdge.response.status = 500
    /\ lastEdge.response.error = "Mistral API error: 401"

----------------------------------------------------------------------------
(* Claims about InterviewWebSocketClient *)

\* The last step scheduled a reconnect attempt.
ReconnectScheduled == lastClient.delay > 0

\* C17: reconnectAttempts stays within 0..5 and is 0 after every open; a
\* close with a code other than 1000 schedules a reconnect while fewer than
\* 5 attempts were made since the last open, and nothing else does; the n-th
\* attempt since the last open is scheduled after 1000 * 2^(n-1) ms.
C17_BoundedBackoff ==
    /\ client.reconnectAttempts \in 0..5
    /\ client.sinceOpen \in 0..5
    /\ lastClient.op = "open" => client.reconnectAttempts = 0
    /\ ReconnectScheduled <=>
           /\ lastClient.op = "close"
           /\ lastClient.code # 1000
           /\ lastClient.attempts < 5
    /\ ReconnectScheduled =>
           /\ lastClient.delay = 1000 * 2 ^ (client.sinceOpen - 1)
           /\ lastClient.delay \in {1000, 2000, 4000, 8000, 16000}

\* The fifth attempt in a row, scheduled after 16 seconds.
C17_Witness ==
    /\ lastClient.op = "close"
    /\ lastClient.code = 1006
    /\ lastClient.delay = 16000
    /\ client.reconnectAttempts = 5
    /\ client.sinceOpen = 5

\* C18: once disconnect has been called, a new socket is created only by a
\* connect call of the client's owner.
C18_DisconnectIsFinal ==
    [][ (client.disconnected /\ client'.created > client.created)
        => lastClient'.op = "connect" ]_vars

----------------------------------------------------------------------------
(* Claims about AnalyzerAgent.getSessionStats *)

\* The statistics the last handler sent, and the history they are about.
StatsSent == lastAnalysis.op \in {"analyze-answer", "get-session-analysis"}
SentStats == lastAnalysis.out[1].sessionStats
StatScoresOf ==
    LET h == HistoryOf(analysisHistory, lastAnalysis.sid)
    IN  [i \in 1..Len(h) |-> h[i].score]

RECURSIVE SumFromTo(_, _, _)
SumFromTo(scores, a, b) ==
    IF a > b THEN 0 ELSE scores[a] + SumFromTo(scores, a + 1, b)

\* The amount by which the mean of the scores after the first floor(n/2)
\* exceeds the mean of those first, in tenths and multiplied by the sizes of
\* the two parts; HalfPoint is 0.5 on that scale.
MeanLead(scores) ==
    LET n == Len(scores)
        h == n \div 2
    IN  SumFromTo(scores, h + 1, n) * h - SumFromTo(scores, 1, h) * (n - h)

HalfPoint(scores) ==
    LET n == Len(scores)
        h == n \div 2
    IN  5 * h * (n - h)

\* C19: for a session with analyses, the trend is 'stable' with fewer than 3
\* scores; with n >= 3 it is 'improving' exactly when the mean of the scores
\* after the first floor(n/2) exceeds the mean of the first floor(n/2) by
\* more than 0.5, 'declining' exactly when it is lower by more than 0.5, and
\* 'stable' otherwise.
C19_TrendDetection ==
    (lastAnalysis.op = "get-session-analysis" /\ Len(StatScoresOf) >= 1)
    => LET scores == StatScoresOf
           trend == SentStats.overallTrend
       IN  /\ Len(scores) < 3 => trend = "stable"
           /\ Len(scores) >= 3 =>
                  /\ trend = "improving" <=> MeanLead(scores) > HalfPoint(scores)
                  /\ trend = "declining" <=> MeanLead(scores) < 0 - HalfPoint(scores)
                  /\ trend \in {"improving", "declining", "stable"}

\* Five scores, split two and three, the last three ahead by more than 0.5.
C19_Witness ==
    /\ lastAnalysis.op = "get-session-analysis"
    /\ StatScoresOf = <<60, 65, 65, 71, 71>>
    /\ SentStats.overallTrend = "improving"

\* C20: the statistics of a session without analyses are averageScore 0,
\* totalQuestions 0 and 'N/A' for the areas and the trend; otherwise
\* totalQuestions is the number of analyses stored for the session and
\* averageScore is their mean score rounded to one decimal; the statistics in
\* a feedback message count the analysis that message carries.
C20_StatsAggregateHistory ==
    StatsSent
    => LET scores == StatScoresOf
           n == Len(scores)
           stats == SentStats
       IN  /\ n = 0 =>
                  stats = [averageScore |-> 0, totalQuestions |-> 0,
                           strongestArea |-> "N/A", weakestArea |-> "N/A",
                           overallTrend |-> "N/A"]
           /\ n > 0 =>
                  /\ stats.totalQuestions = n
                  /\ 2 * n * stats.averageScore - n <= 2 * SumFromTo(scores, 1, n)
                  /\ 2 * SumFromTo(scores, 1, n) <= 2 * n * stats.averageScore + n
           /\ lastAnalysis.op = "analyze-answer" =>
                  /\ n >= 1
                  /\ stats.totalQuestions = n
                  /\ HistoryOf(analysisHistory, lastAnalysis.sid)[n] =
                         lastAnalysis.out[1].analysis[1]

\* A feedback for a session's third analysis, whose mean is not a score.
C20_Witness ==
    /\ lastAnalysis.op = "analyze-answer"
    /\ StatScoresOf = <<70, 75, 85>>
    /\ SentStats.totalQuestions = 3
    /\ SentStats.averageScore = 77

----------------------------------------------------------------------------
(* Two sessions through InterviewerAgent and AnalyzerAgent: the handlers   *)
(* of both sessions interleave freely, and an answer the interviewer has   *)
(* forwarded for a session is analysed by the analyzer.                    *)

PairSessions == {"s1", "s2"}

\* The question id the answers carry.
PairAnswerIds == {"intro-1"}

\* previousFeedback of the next-question requests: none, or a score of 8.
PairFeedback == {<<>>, <<80>>}

\* The backend outcome of the analyses: a score of 7.
PairOutcomes == {[kind |-> "ok", score |-> 70]}

PairStartSession ==
    /\ \E sid \in PairSessions : StartSession(sid, FALSE)
    /\ UNCHANGED <<anaVars, masVars, outerVars>>

PairCandidateAnswer ==
    /\ TotalAnswers < MaxAnswers
    /\ \E sid \in PairSessions, qid \in PairAnswerIds : CandidateAnswer(sid, qid)
    /\ UNCHANGED <<anaVars, masVars, outerVars>>

PairNextQuestion ==
    /\ \E sid \in PairSessions, fb \in PairFeedback : NextQuestion(sid, fb, FALSE)
    /\ UNCHANGED <<anaVars, masVars, outerVars>>

\* analyze-answer for a session with a forwarded answer not yet analysed.
PairAnalyzeAnswer ==
    /\ \E sid \in DOMAIN sessionContext :
         /\ Len(HistoryOf(analysisHistory, sid)) < Len(sessionContext[sid].questionsAsked)
         /\ \E outcome \in PairOutcomes :
              AnalyzeAnswer(sid,
                  [questionId |->
                       sessionContext[sid].questionsAsked[
                           Len(HistoryOf(analysisHistory, sid)) + 1].questionId,
                   category |-> "introduction"],
                  outcome, 0)
    /\ UNCHANGED <<intVars, masVars, outerVars>>

PairNext ==
    \/ PairStartSession
    \/ PairCandidateAnswer
    \/ PairNextQuestion
    \/ PairAnalyzeAnswer

SpecSessions == Init /\ [][PairNext]_vars

\* C21: a candidate-answer or next-question event for a session without a
\* context emits exactly one 'error' event, of type 'answer-handling' resp.
\* 'next-question', and no 'send-message', and leaves every session context
\* and the question bank as they were.
C21_UnknownSessionNoEffect ==
    [][ ( /\ last'.op \in {"candidate-answer", "next-question"}
          /\ last'.sid \notin DOMAIN sessionContext )
        => /\ Len(last'.out) = 1
           /\ last'.out[1].event = "error"
           /\ last'.out[1].type = IF last'.op = "candidate-answer"
                                  THEN "answer-handling" ELSE "next-question"
           /\ sessionContext' = sessionContext
           /\ questionBank' = questionBank ]_vars

\* An answer for the unknown session s2 is rejected while session s1 holds a
\* context with a recorded answer.
C21_Witness ==
    /\ last.op = "candidate-answer"
    /\ last.sid = "s2"
    /\ last.out = <<ErrorEvent("answer-handling")>>
    /\ DOMAIN sessionContext = {"s1"}
    /\ Len(sessionContext["s1"].questionsAsked) = 1

----------------------------------------------------------------------------
(* Claims about the fallback of selectNextQuestion *)

\* The positions in the bank of the questions the last handler's session has
\* no recorded answer for.
LastUnasked ==
    {i \in 1..Len(questionBank) : questionBank[i].id \notin LastAskedIds}

\* C22: when no unasked question has the session's current difficulty and
\* unasked questions remain, the question returned is the first unasked
\* question in bank order; null (the interview ends) is returned only when no
\* unasked question remains.
C22_FallbackFirstUnasked ==
    (last.op = "next-question" /\ LastKnown)
    => /\ ( /\ Len(LastContext.questionsAsked) >= 1
            /\ LastEligible = {}
            /\ LastUnasked # {} )
          => /\ QuestionSent
             /\ \E i \in LastUnasked :
                  /\ \A j \in LastUnasked : i <= j
                  /\ last.out[1].questionId = questionBank[i].id
       /\ CompleteSent => LastUnasked = {}

\* The fallback with more than one question remaining: the only easy
\* question and the first medium one are answered, the difficulty is easy,
\* and the third question of the bank is sent.
C22_Witness ==
    /\ last.op = "next-question"
    /\ LastKnown
    /\ QuestionSent
    /\ LastContext.difficulty = "easy"
    /\ LastAskedIds = {"intro-1", "experience-1"}
    /\ LastEligible = {}
    /\ last.out[1].questionId = "technical-1"

----------------------------------------------------------------------------
(* One session whose 'question' messages are recorded, under any           *)
(* interleaving of start-session, candidate-answer and next-question: an   *)
(* answer carries the id of a question sent in the session, and need not    *)
(* arrive before the next next-question request.                           *)

\* The 'question' messages recorded per session.
MaxSent == 3

TrackedStartSession ==
    /\ StartSession(FlowSession, TRUE)
    /\ UNCHANGED <<anaVars, masVars, outerVars>>

TrackedCandidateAnswer ==
    /\ TotalAnswers < MaxAnswers
    /\ \E i \in 1..Len(questionsSent[FlowSession]) :
           CandidateAnswer(FlowSession, questionsSent[FlowSession][i])
    /\ UNCHANGED <<anaVars, masVars, outerVars>>

TrackedNextQuestion ==
    /\ Len(questionsSent[FlowSession]) < MaxSent
    /\ \E fb \in FlowFeedback : NextQuestion(FlowSession, fb, TRUE)
    /\ UNCHANGED <<anaVars, masVars, outerVars>>

TrackedNext ==
    \/ TrackedStartSession
    \/ TrackedCandidateAnswer
    \/ TrackedNextQuestion

SpecTracked == Init /\ [][TrackedNext]_vars

\* The ids sent in the session since its start-session, and the ids with a
\* recorded answer.
SentIds == {questionsSent[FlowSession][i] : i \in 1..Len(questionsSent[FlowSession])}
AnsweredIds ==
    IF FlowSession \in DOMAIN sessionContext
    THEN {sessionContext[FlowSession].questionsAsked[i].questionId :
              i \in 1..Len(sessionContext[FlowSession].questionsAsked)}
    ELSE {}

----------------------------------------------------------------------------
(* Claims about the interview summary *)

\* The categories of the bank questions the session has a recorded answer for.
LastAnsweredCategories ==
    {questionBank[i].category :
         i \in {j \in 1..Len(questionBank) : questionBank[j].id \in LastAskedIds}}

\* C24: in the summary of interview-complete, categoriesCovered is the set of
\* categories of the bank questions answered in the session, and
\* totalQuestions is the number of answers recorded for the session.
C24_SummaryCoversAnswered ==
    CompleteSent
    => /\ last.out[1].summary[1].categoriesCovered = LastAnsweredCategories
       /\ last.out[1].summary[1].totalQuestions = Len(LastContext.questionsAsked)

----------------------------------------------------------------------------
(* Claims about FrontendAgent's submit-answer *)

\* C25: submit-answer for a session without a session state emits no message
\* towards interviewer-agent, creates no session state, and sends an error
\* message to the frontend, on the session's connection or into its buffer;
\* for a session with a session state, answerCount grows by exactly 1 and one
\* 'answer' message is emitted whose metadata.answerIndex is the new
\* answerCount.
C25_SubmitAnswer ==
    [][ ( /\ lastFrontend'.op = "submit-answer"
          /\ frontend'.handled = frontend.handled + 1 )
        => LET sid == lastFrontend'.sid
           IN  IF sid \notin DOMAIN frontend.sessionStates
               THEN /\ lastFrontend'.emitted = <<>>
                    /\ frontend'.sessionStates = frontend.sessionStates
                    /\ IF sid \in frontend.activeConnections
                       THEN /\ Len(lastFrontend'.sent) = 1
                            /\ lastFrontend'.sent[1].type = "error"
                            /\ frontend'.messageBuffer = frontend.messageBuffer
                       ELSE /\ lastFrontend'.sent = <<>>
                            /\ Len(frontend'.messageBuffer[sid]) =
                                   Len(BufferOf(frontend.messageBuffer, sid)) + 1
                            /\ LET b == frontend'.messageBuffer[sid]
                               IN  b[Len(b)].content.type = "error"
               ELSE /\ frontend'.sessionStates[sid].answerCount =
                           frontend.sessionStates[sid].answerCount + 1
                    /\ Len(lastFrontend'.emitted) = 1
                    /\ lastFrontend'.emitted[1].to = "interviewer-agent"
                    /\ lastFrontend'.emitted[1].what = "answer"
                    /\ lastFrontend'.emitted[1].answerIndex =
                           frontend'.sessionStates[sid].answerCount ]_vars

\* The second answer of a session: answerCount and answerIndex are both 2.
C25_Witness ==
    /\ lastFrontend.op = "submit-answer"
    /\ lastFrontend.sid \in DOMAIN frontend.sessionStates
    /\ frontend.sessionStates[lastFrontend.sid].answerCount = 2
    /\ Len(lastFrontend.emitted) = 1
    /\ lastFrontend.emitted[1].answerIndex = 2

----------------------------------------------------------------------------
(* Claims about the isolation of sessions *)

\* What the two agents hold for session b.
ContextOf(context, b) == IF b \in DOMAIN context THEN <<context[b]>> ELSE <<>>

\* Every session other than a keeps its context (the asked questions and the
\* difficulty), its analysis history and its statistics.
OthersUnchanged(a) ==
    \A b \in PairSessions \ {a} :
        /\ ContextOf(sessionContext', b) = ContextOf(sessionContext, b)
        /\ (b \in DOMAIN analysisHistory') = (b \in DOMAIN analysisHistory)
        /\ HistoryOf(analysisHistory', b) = HistoryOf(analysisHistory, b)
        /\ GetSessionStats(analysisHistory', b) = GetSessionStats(analysisHistory, b)

\* C26: candidate-answer or next-question for a session in InterviewerAgent,
\* and analyze-answer for a session in AnalyzerAgent, leave the context, the
\* analysis history and the statistics of every other session unchanged.
C26_SessionsIsolated ==
    [][ /\ ( /\ last'.op \in {"candidate-answer", "next-question"}
             /\ lastAnalysis' = lastAnalysis )
           => OthersUnchanged(last'.sid)
        /\ ( /\ lastAnalysis'.op = "analyze-answer"
             /\ lastAnalysis' # lastAnalysis )
           => OthersUnchanged(lastAnalysis'.sid) ]_vars

\* An answer of session s1 is analysed while session s2 holds a context at
\* difficulty hard with an answer and its analysis.
C26_Witness ==
    /\ lastAnalysis.op = "analyze-answer"
    /\ lastAnalysis.sid = "s1"
    /\ DOMAIN sessionContext = {"s1", "s2"}
    /\ sessionContext["s2"].difficulty = "hard"
    /\ Len(sessionContext["s2"].questionsAsked) = 1
    /\ Len(HistoryOf(analysisHistory, "s2")) = 1
    /\ Len(HistoryOf(analysisHistory, "s1")) = 1

----------------------------------------------------------------------------
(* The three backend agents side by side: sessions are started, answered   *)
(* and ended in InterviewerAgent, answers are analysed in AnalyzerAgent,    *)
(* and sessions are created in MasterAgent, in any order. The interviewer   *)
(* starts without a session, or with a session in which every question of  *)
(* the bank has been answered.                                             *)

\* InterviewerAgent.healthCheck
InterviewerHealthCheck(bank, context) ==
    [questionsAvailable |-> Len(bank),
     activeSessions     |-> Cardinality(DOMAIN context)]

\* AnalyzerAgent.healthCheck
AnalyzerHealthCheck(history) ==
    [totalAnalyses  |-> LET RECURSIVE Sum(_)
                            Sum(S) == IF S = {} THEN 0
                                      ELSE LET s == CHOOSE x \in S : TRUE
                                           IN  Len(history[s]) + Sum(S \ {s})
                        IN  Sum(DOMAIN history),
     activeSessions |-> Cardinality(DOMAIN history)]

\* MasterAgent.healthCheck
MasterHealthCheck(ss, queue) ==
    [activeSessions |-> Cardinality(DOMAIN ss),
     queueLength    |-> Len(queue)]

\* The context of a session in which every built-in question was answered,
\* in bank order.
AnsweredContext ==
    [questionsAsked |-> [i \in 1..Len(InitialQuestionBank) |->
                             AskedEntry(InitialQuestionBank[i].id)],
     difficulty |-> "hard"]

AgentsInit ==
    /\ questionBank = InitialQuestionBank
    /\ sessionContext \in {<< >>, ("s1" :> AnsweredContext)}
    /\ last = Handled("init", "", "", <<>>, <<>>)
    /\ questionsSent = [s \in SessionIds |-> <<>>]
    /\ AnaInit
    /\ MasInit
    /\ OuterInit

AgentsStartSession ==
    /\ \E sid \in PairSessions : StartSession(sid, FALSE)
    /\ UNCHANGED <<anaVars, masVars, outerVars>>

AgentsCandidateAnswer ==
    /\ TotalAnswers < MaxAnswers
    /\ \E sid \in PairSessions, qid \in PairAnswerIds : CandidateAnswer(sid, qid)
    /\ UNCHANGED <<anaVars, masVars, outerVars>>

AgentsNextQuestion ==
    /\ \E sid \in PairSessions : NextQuestion(sid, <<>>, FALSE)
    /\ UNCHANGED <<anaVars, masVars, outerVars>>

AgentsAnalyzeAnswer ==
    /\ TotalAnalyses < MaxAnalyses
    /\ \E sid \in PairSessions, outcome \in PairOutcomes :
           AnalyzeAnswer(sid, [questionId |-> "intro-1", category |-> "introduction"],
                         outcome, 0)
    /\ UNCHANGED <<intVars, masVars, outerVars>>

AgentsNext ==
    \/ AgentsStartSession
    \/ AgentsCandidateAnswer
    \/ AgentsNextQuestion
    \/ AgentsAnalyzeAnswer
    \/ CreateSession

SpecAgents == AgentsInit /\ [][AgentsNext]_vars


\* The session counts the three healthChecks report.
InterviewerSessions ==
    InterviewerHealthCheck(questionBank, sessionContext).activeSessions
AnalyzerSessions == AnalyzerHealthCheck(analysisHistory).activeSessions
MasterSessions == MasterHealthCheck(sessions, messageQueue).activeSessions

\* C27: no operation removes an entry of InterviewerAgent.sessionContext,
\* AnalyzerAgent.analysisHistory or MasterAgent.sessions; the activeSessions
\* the three healthChecks report never decrease; and a session whose
\* interview has just completed is still stored and still counted as active.
C27_NoEviction ==
    [][ /\ DOMAIN sessionContext \subseteq DOMAIN sessionContext'
        /\ DOMAIN analysisHistory \subseteq DOMAIN analysisHistory'
        /\ DOMAIN sessions \subseteq DOMAIN sessions'
        /\ InterviewerSessions' >= InterviewerSessions
        /\ AnalyzerSessions' >= AnalyzerSessions
        /\ MasterSessions' >= MasterSessions
        /\ (last'.op = "next-question" /\ CompleteSent')
           => /\ last'.sid \in DOMAIN sessionContext'
              /\ InterviewerSessions' =
                     1 + Cardinality(DOMAIN sessionContext \ {last'.sid}) ]_vars

\* The interview of s1 has completed while s2 is in progress, analyses are
\* stored and the master holds a session: s1 is still counted.
C27_Witness ==
    /\ last.op = "next-question"
    /\ CompleteSent
    /\ last.sid = "s1"
    /\ DOMAIN sessionContext = {"s1", "s2"}
    /\ InterviewerSessions = 2
    /\ AnalyzerSessions >= 1
    /\ MasterSessions >= 1

====
